---- MODULE Spec2Model ----
(***************************************************************************)
(* Inventory & Sales Ledger Engine (inventory/models.py, serializers.py,   *)
(* views.py): stock rows, stock movements, sale totals and finalization,   *)
(* sale returns and the credit ledger, over a transactional store.         *)
(*                                                                         *)
(* Money is held in hundredths of a currency unit (Decimal, 2 places).     *)
(* A NULL foreign key or NULL timestamp is None / NoTime.                  *)
(***************************************************************************)
EXTENDS Integers, Sequences, FiniteSets, TLC

VARIABLES
    stock,      \* Stock table: <<warehouse, product, part>> -> quantity
    movements,  \* StockMovement table, in insertion (id) order
    sales,      \* Sale table with its SaleItem / SalePayment children
    returns,    \* SaleReturn table with its SaleReturnItem children
    audit,      \* AuditLog table
    accounts,   \* CreditAccount table: balances
    entries,    \* CreditEntry table
    clock,      \* timezone.now()
    last,       \* outcome of the last request handled
    pc,         \* per request worker: the statement it is at
    loc,        \* per request worker: its local variables
    tx,         \* per request worker: writes of its open transaction
    checks      \* InventoryCheck table with its InventoryCheckLine children

vars == <<stock, movements, sales, returns, audit, accounts, entries, clock,
          last, pc, loc, tx, checks>>

-----------------------------------------------------------------------------
(* Bounds of the model *)

\* Largest quantity a Stock.quantity column holds (the integer column's range,
\* scaled down): a save beyond it is refused by the store.
MaxQty == 3

\* Number of stock-movement requests in a run of SpecMovement.
MaxCalls == 1

\* Number of sales, and of returns, created in a run.
MaxSales == 1
MaxReturns == 1
MaxEntries == 3
MaxItems == 2
MaxPayments == 2

None == "None"
NoTime == 0

Warehouses == {"w1", "w2"}
Products == {"p1"}
Parts == {"q1"}

MovementTypes == {"in", "out", "transfer", "loss"}

-----------------------------------------------------------------------------
(* Stock Ledger and Movement Applier *)

Key(warehouse, product, part) == <<warehouse, product, part>>

HasRow(st, key) == key \in DOMAIN st

\* Stock.objects.get_or_create(..., defaults={"quantity": 0})
GetOrCreate(st, key) ==
    IF HasRow(st, key) THEN st
    ELSE [k \in DOMAIN st \cup {key} |-> IF k = key THEN 0 ELSE st[k]]

AdjustResult(ok, err, st) == [ok |-> ok, err |-> err, stock |-> st]

\* _adjust_stock without its `if new_qty < 0: raise` check.
AdjustStockUnchecked(st, warehouse, delta, product, part) ==
    IF warehouse = None
    THEN AdjustResult(FALSE, "warehouse_required", st)
    ELSE LET key == Key(warehouse, product, part)
             st1 == GetOrCreate(st, key)
             new_qty == st1[key] + delta
         IN  IF new_qty > MaxQty
             THEN AdjustResult(FALSE, "out_of_range", st1)
             ELSE AdjustResult(TRUE, "", [st1 EXCEPT ![key] = new_qty])

\* _adjust_stock(warehouse, delta, product, part): the row is fetched or
\* created, then the new quantity is checked and saved.  A failure leaves
\* what was written before it (the created row) to the enclosing transaction.
AdjustStock(st, warehouse, delta, product, part) ==
    IF warehouse = None
    THEN AdjustResult(FALSE, "warehouse_required", st)
    ELSE LET key == Key(warehouse, product, part)
             st1 == GetOrCreate(st, key)
             new_qty == st1[key] + delta
         IN  IF new_qty < 0
             THEN AdjustResult(FALSE, "insufficient_stock", st1)
             ELSE IF new_qty > MaxQty
             THEN AdjustResult(FALSE, "out_of_range", st1)
             ELSE AdjustResult(TRUE, "", [st1 EXCEPT ![key] = new_qty])

\* StockMovement.apply() without the transfer's check of both warehouses.
ApplyTransferUnchecked(st, m) ==
    IF m.movement_type = "transfer"
    THEN LET r1 == AdjustStock(st, m.warehouse_from, -m.quantity,
                               m.product, m.part)
         IN  IF ~r1.ok THEN r1
             ELSE AdjustStock(r1.stock, m.warehouse_to, m.quantity,
                              m.product, m.part)
    ELSE IF m.movement_type = "in"
    THEN AdjustStock(st, m.warehouse_to, m.quantity, m.product, m.part)
    ELSE IF m.movement_type \in {"out", "loss"}
    THEN AdjustStock(st, m.warehouse_from, -m.quantity, m.product, m.part)
    ELSE AdjustResult(FALSE, "unknown_movement_type", st)

\* StockMovement.apply()
Apply(st, m) ==
    IF m.movement_type = "transfer"
    THEN IF m.warehouse_from = None \/ m.warehouse_to = None
         THEN AdjustResult(FALSE, "transfer_requires_both", st)
         ELSE LET r1 == AdjustStock(st, m.warehouse_from, -m.quantity,
                                    m.product, m.part)
              IN  IF ~r1.ok THEN r1
                  ELSE AdjustStock(r1.stock, m.warehouse_to, m.quantity,
                                   m.product, m.part)
    ELSE IF m.movement_type = "in"
    THEN AdjustStock(st, m.warehouse_to, m.quantity, m.product, m.part)
    ELSE IF m.movement_type = "out"
    THEN AdjustStock(st, m.warehouse_from, -m.quantity, m.product, m.part)
    ELSE IF m.movement_type = "loss"
    THEN AdjustStock(st, m.warehouse_from, -m.quantity, m.product, m.part)
    ELSE AdjustResult(FALSE, "unknown_movement_type", st)

Movement(mtype, wf, wt, product, part, qty, note) ==
    [movement_type |-> mtype, warehouse_from |-> wf, warehouse_to |-> wt,
     product |-> product, part |-> part, quantity |-> qty, note |-> note]

\* StockMovementSerializer.validate
ValidateMovement(m) ==
    /\ ~(m.movement_type = "transfer"
         /\ (m.warehouse_from = None \/ m.warehouse_to = None))
    /\ ~(m.movement_type \in {"out", "loss"} /\ m.warehouse_from = None)
    /\ ~(m.movement_type = "in" /\ m.warehouse_to = None)

Result(op, ok, err, arg) == [op |-> op, ok |-> ok, err |-> err, arg |-> arg]

\* POST /stock-movements/: StockMovementSerializer.validate, then create:
\* the record is saved, then applied, outside any transaction.
CreateMovement(m) ==
    /\ Len(movements) < MaxCalls
    /\ IF ~ValidateMovement(m)
       THEN /\ last' = Result("movement", FALSE, "invalid", m)
            /\ UNCHANGED <<stock, movements>>
       ELSE LET r == Apply(stock, m)
            IN  /\ movements' = Append(movements, m)
                /\ stock' = r.stock
                /\ last' = Result("movement", r.ok, r.err, m)
    /\ UNCHANGED <<checks, sales, returns, audit, accounts, entries, clock, pc, loc, tx>>

\* StockMovement.objects.create(...) followed by movement.apply(), called
\* directly: no serializer validation, no transaction.
ApplyMovement(m) ==
    /\ Len(movements) < MaxCalls
    /\ LET r == Apply(stock, m)
       IN  /\ movements' = Append(movements, m)
           /\ stock' = r.stock
           /\ last' = Result("apply", r.ok, r.err, m)
    /\ UNCHANGED <<checks, sales, returns, audit, accounts, entries, clock, pc, loc, tx>>

\* PATCH /stocks/{id}/ {quantity}: StockViewSet serves post, put and patch
\* and StockSerializer leaves quantity writable; the row is saved as sent.
UpdateStock(key, quantity) ==
    /\ HasRow(stock, key)
    /\ stock' = [stock EXCEPT ![key] = quantity]
    /\ last' = Result("update_stock", TRUE, "", <<key, quantity>>)
    /\ UNCHANGED <<checks, movements, sales, returns, audit, accounts, entries,
                   clock, pc, loc, tx>>

-----------------------------------------------------------------------------
(* Sale Aggregate: items, payments, totals *)

RECURSIVE SeqSum(_)
SeqSum(s) == IF s = <<>> THEN 0 ELSE Head(s) + SeqSum(Tail(s))

\* Decimal.quantize(Decimal("0.01")) of num/den hundredths, den > 0, under the
\* decimal context's default rounding, ROUND_HALF_EVEN.
Quantize(num, den) ==
    LET q == num \div den
        r == num % den
    IN  IF 2 * r < den THEN q
        ELSE IF 2 * r > den THEN q + 1
        ELSE IF q % 2 = 0 THEN q ELSE q + 1

\* SaleItem with SaleItem.save: line_total = quantity * unit_price - discount
SaleItem(product, part, quantity, unit_uzs, unit_usd, disc_uzs, disc_usd) ==
    [product |-> product, part |-> part, quantity |-> quantity,
     unit_price_uzs |-> unit_uzs, unit_price_usd |-> unit_usd,
     discount_uzs |-> disc_uzs, discount_usd |-> disc_usd,
     line_total_uzs |-> Quantize(quantity * unit_uzs - disc_uzs, 1),
     line_total_usd |-> Quantize(quantity * unit_usd - disc_usd, 1)]

SalePayment(amount_uzs, amount_usd) ==
    [amount_uzs |-> amount_uzs, amount_usd |-> amount_usd]

\* Sale.objects.create(...): a draft sale with zero totals
NewSale(warehouse, discount_type, discount_value) ==
    [warehouse |-> warehouse, discount_type |-> discount_type,
     discount_value |-> discount_value, items |-> <<>>, payments |-> <<>>,
     subtotal_uzs |-> 0, subtotal_usd |-> 0, total_uzs |-> 0, total_usd |-> 0,
     total_paid_uzs |-> 0, total_paid_usd |-> 0,
     change_due_uzs |-> 0, change_due_usd |-> 0,
     status |-> "draft", completed_at |-> NoTime]

Max(a, b) == IF a >= b THEN a ELSE b

\* recompute_totals taking the fixed discount off the USD total as well.
RecomputeTotalsAmountBoth(sale) ==
    LET n == Len(sale.items)
        subtotal_uzs == SeqSum([i \in 1..n |-> sale.items[i].line_total_uzs])
        subtotal_usd == SeqSum([i \in 1..n |-> sale.items[i].line_total_usd])
        discount_uzs ==
            IF sale.discount_type = "percent"
            THEN Quantize(subtotal_uzs * sale.discount_value, 10000)
            ELSE IF sale.discount_type = "amount" THEN sale.discount_value
            ELSE 0
        discount_usd ==
            IF sale.discount_type = "percent"
            THEN Quantize(subtotal_usd * sale.discount_value, 10000)
            ELSE IF sale.discount_type = "amount" THEN sale.discount_value
            ELSE 0
        total_uzs == Quantize(subtotal_uzs - discount_uzs, 1)
        total_usd == Quantize(subtotal_usd - discount_usd, 1)
        k == Len(sale.payments)
        paid_uzs == SeqSum([i \in 1..k |-> sale.payments[i].amount_uzs])
        paid_usd == SeqSum([i \in 1..k |-> sale.payments[i].amount_usd])
    IN  [sale EXCEPT
            !.subtotal_uzs = subtotal_uzs, !.subtotal_usd = subtotal_usd,
            !.total_uzs = total_uzs, !.total_usd = total_usd,
            !.total_paid_uzs = paid_uzs, !.total_paid_usd = paid_usd,
            !.change_due_uzs = Max(paid_uzs - total_uzs, 0),
            !.change_due_usd = Max(paid_usd - total_usd, 0),
            !.status = IF paid_uzs >= total_uzs THEN "paid"
                       ELSE IF paid_uzs > 0 THEN "partial"
                       ELSE "open"]

\* recompute_totals comparing paid > total where the code has >=.
RecomputeTotalsStrictPaid(sale) ==
    LET n == Len(sale.items)
        subtotal_uzs == SeqSum([i \in 1..n |-> sale.items[i].line_total_uzs])
        subtotal_usd == SeqSum([i \in 1..n |-> sale.items[i].line_total_usd])
        discount_uzs ==
            IF sale.discount_type = "percent"
            THEN Quantize(subtotal_uzs * sale.discount_value, 10000)
            ELSE IF sale.discount_type = "amount" THEN sale.discount_value
            ELSE 0
        discount_usd ==
            IF sale.discount_type = "percent"
            THEN Quantize(subtotal_usd * sale.discount_value, 10000)
            ELSE 0
        total_uzs == Quantize(subtotal_uzs - discount_uzs, 1)
        total_usd == Quantize(subtotal_usd - discount_usd, 1)
        k == Len(sale.payments)
        paid_uzs == SeqSum([i \in 1..k |-> sale.payments[i].amount_uzs])
        paid_usd == SeqSum([i \in 1..k |-> sale.payments[i].amount_usd])
    IN  [sale EXCEPT
            !.subtotal_uzs = subtotal_uzs, !.subtotal_usd = subtotal_usd,
            !.total_uzs = total_uzs, !.total_usd = total_usd,
            !.total_paid_uzs = paid_uzs, !.total_paid_usd = paid_usd,
            !.change_due_uzs = Max(paid_uzs - total_uzs, 0),
            !.change_due_usd = Max(paid_usd - total_usd, 0),
            !.status = IF paid_uzs > total_uzs THEN "paid"
                       ELSE IF paid_uzs > 0 THEN "partial"
                       ELSE "open"]

\* Sale.recompute_totals(), over the sale's stored items and payments.
\* discount_value is in hundredths (of a percent, or of a currency unit).
RecomputeTotals(sale) ==
    LET n == Len(sale.items)
        subtotal_uzs == SeqSum([i \in 1..n |-> sale.items[i].line_total_uzs])
        subtotal_usd == SeqSum([i \in 1..n |-> sale.items[i].line_total_usd])
        discount_uzs ==
            IF sale.discount_type = "percent"
            THEN Quantize(subtotal_uzs * sale.discount_value, 10000)
            ELSE IF sale.discount_type = "amount" THEN sale.discount_value
            ELSE 0
        discount_usd ==
            IF sale.discount_type = "percent"
            THEN Quantize(subtotal_usd * sale.discount_value, 10000)
            ELSE 0
        total_uzs == Quantize(subtotal_uzs - discount_uzs, 1)
        total_usd == Quantize(subtotal_usd - discount_usd, 1)
        k == Len(sale.payments)
        paid_uzs == SeqSum([i \in 1..k |-> sale.payments[i].amount_uzs])
        paid_usd == SeqSum([i \in 1..k |-> sale.payments[i].amount_usd])
    IN  [sale EXCEPT
            !.subtotal_uzs = subtotal_uzs, !.subtotal_usd = subtotal_usd,
            !.total_uzs = total_uzs, !.total_usd = total_usd,
            !.total_paid_uzs = paid_uzs, !.total_paid_usd = paid_usd,
            !.change_due_uzs = Max(paid_uzs - total_uzs, 0),
            !.change_due_usd = Max(paid_usd - total_usd, 0),
            !.status = IF paid_uzs >= total_uzs THEN "paid"
                       ELSE IF paid_uzs > 0 THEN "partial"
                       ELSE "open"]

\* SalePayment.objects.create(sale=sale, ...): SalePayment.save stores the new
\* payment, then sale.recompute_totals() on a sale read from the store.
AddPaymentTo(sale, payment) ==
    RecomputeTotals([sale EXCEPT !.payments = Append(@, payment)])

RECURSIVE AddPayments(_, _)
AddPayments(sale, payments) ==
    IF payments = <<>> THEN sale
    ELSE AddPayments(AddPaymentTo(sale, Head(payments)), Tail(payments))

\* SaleItem.objects.create(sale=sale, ...): the line is stored with its line
\* total; the sale's totals are not touched.
AddItem(sid, item) ==
    /\ sid \in 1..Len(sales)
    /\ Len(sales[sid].items) < MaxItems
    /\ sales' = [sales EXCEPT ![sid].items = Append(@, item)]
    /\ last' = Result("add_item", TRUE, "", <<sid>>)
    /\ UNCHANGED <<checks, stock, movements, returns, audit, accounts, entries, clock,
                   pc, loc, tx>>

\* sale.recompute_totals() on a sale read from the store.
RecomputeSale(sid) ==
    /\ sid \in 1..Len(sales)
    /\ sales' = [sales EXCEPT ![sid] = RecomputeTotals(@)]
    /\ last' = Result("recompute", TRUE, "", <<sid>>)
    /\ UNCHANGED <<checks, stock, movements, returns, audit, accounts, entries, clock,
                   pc, loc, tx>>

\* SalePayment.objects.create(sale=sale, ...) with a sale read from the store
\* without prefetch.
AddPayment(sid, payment) ==
    /\ sid \in 1..Len(sales)
    /\ Len(sales[sid].payments) < MaxPayments
    /\ sales' = [sales EXCEPT ![sid] = AddPaymentTo(@, payment)]
    /\ last' = Result("add_payment", TRUE, "", <<sid>>)
    /\ UNCHANGED <<checks, stock, movements, returns, audit, accounts, entries, clock,
                   pc, loc, tx>>

\* The sale row after SalePayment.save on a sale instance whose payments were
\* prefetched before the payment was created: the payment is stored, and
\* recompute_totals sums the prefetched payments.
AddPaymentPrefetched(sale, payment) ==
    [RecomputeTotals(sale) EXCEPT !.payments = Append(sale.payments, payment)]

\* POST /sales/{id}/add-payment/ (SaleViewSet.add_payment): get_object()
\* loads the sale with items and payments prefetched, then the payment is
\* created on it.
ApiAddPayment(sid, payment) ==
    /\ sid \in 1..Len(sales)
    /\ Len(sales[sid].payments) < MaxPayments
    /\ sales' = [sales EXCEPT ![sid] = AddPaymentPrefetched(@, payment)]
    /\ last' = Result("api_add_payment", TRUE, "", <<sid>>)
    /\ UNCHANGED <<checks, stock, movements, returns, audit, accounts, entries, clock,
                   pc, loc, tx>>

-----------------------------------------------------------------------------
(* Sale Finalizer *)

\* The tables a finalize or a return touches, as one value.
DB == [stock |-> stock, movements |-> movements, sales |-> sales,
       returns |-> returns, audit |-> audit]

AuditFact(action, actor, target_model, target_id, context) ==
    [action |-> action, actor |-> actor, target_model |-> target_model,
     target_id |-> target_id, context |-> context]

OpResult(ok, err, d, at) == [ok |-> ok, err |-> err, db |-> d, at |-> at]

\* An atomic block that keeps the writes of a block that raised.
AtomicNoRollback(d, r) == r

\* `with transaction.atomic():` around a block that ended with r: its writes
\* are committed when it ended normally and rolled back when it raised.
Atomic(d, r) == [r EXCEPT !.db = IF r.ok THEN r.db ELSE d]

\* Sale.finalize's loop leaving after its first item.
FinalizeItemsFirstOnly(d, sid, i) ==
    LET sale == d.sales[sid]
    IN  IF i > Len(sale.items) \/ i > 1 THEN OpResult(TRUE, "", d, 0)
        ELSE LET item == sale.items[i]
                 m == Movement("out", sale.warehouse, None, item.product,
                               item.part, item.quantity, <<"Sale", sid>>)
                 r == Apply(d.stock, m)
                 d1 == [d EXCEPT !.movements = Append(@, m), !.stock = r.stock]
             IN  IF ~r.ok THEN OpResult(FALSE, r.err, d1, i)
                 ELSE OpResult(TRUE, "", d1, 0)

\* The loop of Sale.finalize from item i on: per item an outbound movement is
\* created and applied; the first failure raises out of the loop.
RECURSIVE FinalizeItems(_, _, _)
FinalizeItems(d, sid, i) ==
    LET sale == d.sales[sid]
    IN  IF i > Len(sale.items) THEN OpResult(TRUE, "", d, 0)
        ELSE LET item == sale.items[i]
                 m == Movement("out", sale.warehouse, None, item.product,
                               item.part, item.quantity, <<"Sale", sid>>)
                 r == Apply(d.stock, m)
                 d1 == [d EXCEPT !.movements = Append(@, m), !.stock = r.stock]
             IN  IF ~r.ok THEN OpResult(FALSE, r.err, d1, i)
                 ELSE FinalizeItems(d1, sid, i + 1)

\* The body of Sale.finalize's atomic block writing its audit row whether or
\* not an actor was passed.
FinalizeBodyAuditsAlways(d, sid, actor, now) ==
    LET d0 == [d EXCEPT !.sales[sid] = RecomputeTotals(@)]
        r == FinalizeItems(d0, sid, 1)
    IN  IF ~r.ok THEN r
        ELSE LET d1 == [r.db EXCEPT !.sales[sid].completed_at = now]
                 d2 == [d1 EXCEPT !.audit = Append(@,
                            AuditFact("sale_finalized", actor, "Sale", sid,
                                      <<"sale_number", sid>>))]
             IN  OpResult(TRUE, "", d2, 0)

\* The body of Sale.finalize's atomic block.
FinalizeBody(d, sid, actor, now) ==
    LET d0 == [d EXCEPT !.sales[sid] = RecomputeTotals(@)]
        r == FinalizeItems(d0, sid, 1)
    IN  IF ~r.ok THEN r
        ELSE LET d1 == [r.db EXCEPT !.sales[sid].completed_at = now]
                 d2 == IF actor # None
                       THEN [d1 EXCEPT !.audit = Append(@,
                                AuditFact("sale_finalized", actor, "Sale", sid,
                                          <<"sale_number", sid>>))]
                       ELSE d1
             IN  OpResult(TRUE, "", d2, 0)

\* Sale.finalize returning at once for a sale that has its completed_at set.
FinalizeOnce(d, sid, actor, now) ==
    IF d.sales[sid].completed_at # NoTime THEN OpResult(TRUE, "", d, -1)
    ELSE Atomic(d, FinalizeBody(d, sid, actor, now))

\* Sale.finalize(actor)
Finalize(d, sid, actor, now) == Atomic(d, FinalizeBody(d, sid, actor, now))

Commit(d) ==
    /\ stock' = d.stock
    /\ movements' = d.movements
    /\ sales' = d.sales
    /\ returns' = d.returns
    /\ audit' = d.audit

\* Sale.objects.create, SaleItem.objects.create per item and
\* SalePayment.objects.create per payment: a sale built but not finalized.
BuildSale(warehouse, discount_type, discount_value, items, payments) ==
    /\ Len(sales) < MaxSales
    /\ LET sale == AddPayments([NewSale(warehouse, discount_type, discount_value)
                                   EXCEPT !.items = items], payments)
       IN  /\ sales' = Append(sales, sale)
           /\ last' = Result("build_sale", TRUE, "", <<Len(sales) + 1>>)
    /\ UNCHANGED <<checks, stock, movements, returns, audit, accounts, entries, clock,
                   pc, loc, tx>>

\* POST /sales/{id}/finalize/ (SaleViewSet.finalize) or a direct
\* sale.finalize(actor).
FinalizeSale(sid, actor) ==
    /\ sid \in 1..Len(sales)
    /\ LET r == Finalize(DB, sid, actor, clock)
       IN  /\ Commit(r.db)
           /\ clock' = IF r.ok THEN clock + 1 ELSE clock
           /\ last' = Result("finalize", r.ok, r.err, <<sid, actor, r.at>>)
    /\ UNCHANGED <<checks, accounts, entries, pc, loc, tx>>

\* POST /sales/ (SaleWriteSerializer.create): the sale, its items and its
\* payments are created and the sale finalized in one transaction.
CreateSale(warehouse, discount_type, discount_value, items, payments, actor) ==
    /\ Len(sales) < MaxSales
    /\ LET sid == Len(sales) + 1
           sale == AddPayments([NewSale(warehouse, discount_type, discount_value)
                                   EXCEPT !.items = items], payments)
           d0 == [DB EXCEPT !.sales = Append(@, sale)]
           r == Atomic(DB, Finalize(d0, sid, actor, clock))
       IN  /\ Commit(r.db)
           /\ clock' = IF r.ok THEN clock + 1 ELSE clock
           /\ last' = Result("create_sale", r.ok, r.err, <<sid, actor, r.at>>)
    /\ UNCHANGED <<checks, accounts, entries, pc, loc, tx>>

-----------------------------------------------------------------------------
(* Return Processor *)

\* SaleReturnItem: sale_item is <<sale id, position of the item in the sale>>
SaleReturnItem(sale_item, quantity, refund_uzs, refund_usd) ==
    [sale_item |-> sale_item, quantity |-> quantity,
     refund_amount_uzs |-> refund_uzs, refund_amount_usd |-> refund_usd]

\* SaleReturn.objects.create(sale=...)
NewReturn(sid, status, items) ==
    [sale |-> sid, status |-> status, items |-> items, processed_at |-> NoTime,
     total_refunded_uzs |-> 0, total_refunded_usd |-> 0]

\* SaleReturn.process's loop leaving after its first return item.
ProcessItemsFirstOnly(d, rid, i) ==
    LET ret == d.returns[rid]
    IN  IF i > Len(ret.items) \/ i > 1 THEN OpResult(TRUE, "", d, 0)
        ELSE LET item == ret.items[i]
                 sale_item == d.sales[item.sale_item[1]].items[item.sale_item[2]]
                 m == Movement("in", None, d.sales[ret.sale].warehouse,
                               sale_item.product, sale_item.part, item.quantity,
                               <<"Return", rid>>)
                 r == Apply(d.stock, m)
                 d1 == [d EXCEPT !.movements = Append(@, m), !.stock = r.stock]
             IN  IF ~r.ok THEN OpResult(FALSE, r.err, d1, i)
                 ELSE OpResult(TRUE, "", d1, 0)

\* SaleReturn.process's loop refusing a line that returns more units than
\* its sale item sold.
RECURSIVE ProcessItemsValidated(_, _, _)
ProcessItemsValidated(d, rid, i) ==
    LET ret == d.returns[rid]
    IN  IF i > Len(ret.items) THEN OpResult(TRUE, "", d, 0)
        ELSE LET item == ret.items[i]
                 sale_item == d.sales[item.sale_item[1]].items[item.sale_item[2]]
                 m == Movement("in", None, d.sales[ret.sale].warehouse,
                               sale_item.product, sale_item.part, item.quantity,
                               <<"Return", rid>>)
                 r == Apply(d.stock, m)
                 d1 == [d EXCEPT !.movements = Append(@, m), !.stock = r.stock]
             IN  IF item.quantity > sale_item.quantity
                 THEN OpResult(FALSE, "exceeds_sold", d, i)
                 ELSE IF ~r.ok THEN OpResult(FALSE, r.err, d1, i)
                 ELSE ProcessItemsValidated(d1, rid, i + 1)

\* The loop of SaleReturn.process from return item i on: per item an inbound
\* movement into the sale's warehouse is created and applied.
RECURSIVE ProcessItems(_, _, _)
ProcessItems(d, rid, i) ==
    LET ret == d.returns[rid]
    IN  IF i > Len(ret.items) THEN OpResult(TRUE, "", d, 0)
        ELSE LET item == ret.items[i]
                 sale_item == d.sales[item.sale_item[1]].items[item.sale_item[2]]
                 m == Movement("in", None, d.sales[ret.sale].warehouse,
                               sale_item.product, sale_item.part, item.quantity,
                               <<"Return", rid>>)
                 r == Apply(d.stock, m)
                 d1 == [d EXCEPT !.movements = Append(@, m), !.stock = r.stock]
             IN  IF ~r.ok THEN OpResult(FALSE, r.err, d1, i)
                 ELSE ProcessItems(d1, rid, i + 1)

\* The units the lines of a return give back, and the units its sale sold.
UnitsReturned(ret) == SeqSum([i \in 1..Len(ret.items) |-> ret.items[i].quantity])
UnitsSold(sale) == SeqSum([i \in 1..Len(sale.items) |-> sale.items[i].quantity])

\* SaleReturn.process keeping only the last line's refund as the total.
ProcessBodyLastRefund(d, rid, actor, now) ==
    LET r == ProcessItems(d, rid, 1)
    IN  IF ~r.ok THEN r
        ELSE LET ret == d.returns[rid]
                 n == Len(ret.items)
                 d1 == [r.db EXCEPT
                          !.returns[rid].total_refunded_uzs =
                              ret.items[n].refund_amount_uzs,
                          !.returns[rid].total_refunded_usd =
                              ret.items[n].refund_amount_usd,
                          !.returns[rid].status = "completed",
                          !.returns[rid].processed_at = now,
                          !.sales[ret.sale].status = "refunded"]
             IN  OpResult(TRUE, "", d1, 0)

\* SaleReturn.process marking the sale refunded only when every unit sold
\* comes back, and partially refunded otherwise.
ProcessBodyPartial(d, rid, actor, now) ==
    LET r == ProcessItems(d, rid, 1)
    IN  IF ~r.ok THEN r
        ELSE LET ret == d.returns[rid]
                 n == Len(ret.items)
                 d1 == [r.db EXCEPT
                          !.returns[rid].total_refunded_uzs =
                              SeqSum([i \in 1..n |-> ret.items[i].refund_amount_uzs]),
                          !.returns[rid].total_refunded_usd =
                              SeqSum([i \in 1..n |-> ret.items[i].refund_amount_usd]),
                          !.returns[rid].status = "completed",
                          !.returns[rid].processed_at = now,
                          !.sales[ret.sale].status =
                              IF UnitsReturned(ret) >= UnitsSold(d.sales[ret.sale])
                              THEN "refunded" ELSE "partially_refunded"]
             IN  OpResult(TRUE, "", d1, 0)

\* The body of SaleReturn.process's atomic block.
ProcessBody(d, rid, actor, now) ==
    LET r == ProcessItems(d, rid, 1)
    IN  IF ~r.ok THEN r
        ELSE LET ret == d.returns[rid]
                 n == Len(ret.items)
                 d1 == [r.db EXCEPT
                          !.returns[rid].total_refunded_uzs =
                              SeqSum([i \in 1..n |-> ret.items[i].refund_amount_uzs]),
                          !.returns[rid].total_refunded_usd =
                              SeqSum([i \in 1..n |-> ret.items[i].refund_amount_usd]),
                          !.returns[rid].status = "completed",
                          !.returns[rid].processed_at = now,
                          !.sales[ret.sale].status = "refunded"]
                 d2 == IF actor # None
                       THEN [d1 EXCEPT !.audit = Append(@,
                                AuditFact("sale_return_processed", actor,
                                          "SaleReturn", rid,
                                          <<"return_number", rid>>))]
                       ELSE d1
             IN  OpResult(TRUE, "", d2, 0)

\* SaleReturn.process without its completed-status check.
ProcessUnguarded(d, rid, actor, now) ==
    Atomic(d, ProcessBody(d, rid, actor, now))

\* SaleReturn.process(actor): nothing is done for a completed return
\* (at = -1 marks that short-circuit).
Process(d, rid, actor, now) ==
    IF d.returns[rid].status = "completed" THEN OpResult(TRUE, "", d, -1)
    ELSE Atomic(d, ProcessBody(d, rid, actor, now))

\* SaleReturn.objects.create and SaleReturnItem.objects.create per item: a
\* return built but not processed.
BuildReturn(sid, status, items) ==
    /\ Len(returns) < MaxReturns
    /\ sid \in 1..Len(sales)
    /\ returns' = Append(returns, NewReturn(sid, status, items))
    /\ last' = Result("build_return", TRUE, "", <<Len(returns) + 1>>)
    /\ UNCHANGED <<checks, stock, movements, sales, audit, accounts, entries, clock,
                   pc, loc, tx>>

\* A direct sale_return.process(actor) on a stored return.
ProcessReturn(rid, actor) ==
    /\ rid \in 1..Len(returns)
    /\ LET r == Process(DB, rid, actor, clock)
       IN  /\ Commit(r.db)
           /\ clock' = IF r.ok /\ r.at # -1 THEN clock + 1 ELSE clock
           /\ last' = Result("process", r.ok, r.err, <<rid, actor, r.at>>)
    /\ UNCHANGED <<checks, accounts, entries, pc, loc, tx>>

\* POST /sale-returns/ (SaleReturnSerializer.create): the return and its
\* items are created and the return processed in one transaction.
CreateReturn(sid, items, actor) ==
    /\ Len(returns) < MaxReturns
    /\ sid \in 1..Len(sales)
    /\ LET rid == Len(returns) + 1
           d0 == [DB EXCEPT !.returns = Append(@, NewReturn(sid, "draft", items))]
           r == Atomic(DB, Process(d0, rid, actor, clock))
       IN  /\ Commit(r.db)
           /\ clock' = IF r.ok THEN clock + 1 ELSE clock
           /\ last' = Result("create_return", r.ok, r.err, <<rid, actor, r.at>>)
    /\ UNCHANGED <<checks, accounts, entries, pc, loc, tx>>

-----------------------------------------------------------------------------
(* Credit ledger: CreditAccount, CreditEntry. *)

Accounts == {"a1"}
Directions == {"debit", "credit"}

CreditAccount == [balance_uzs |-> 0, balance_usd |-> 0]

\* The pk of an entry that has not been saved (None); stored entries have
\* pk 1, 2, ...
NoPk == 0

CreditEntry(account, direction, amount_uzs, amount_usd) ==
    [account |-> account, direction |-> direction,
     amount_uzs |-> amount_uzs, amount_usd |-> amount_usd]

\* CreditEntry.apply_to_account: the account row after the entry's signed
\* amounts are added to its balances and the balances are saved.
ApplyToAccount(accs, entry) ==
    LET multiplier == IF entry.direction = "debit" THEN 1 ELSE -1
    IN  [accs EXCEPT
           ![entry.account].balance_uzs =
               Quantize(@ + multiplier * entry.amount_uzs, 1),
           ![entry.account].balance_usd =
               Quantize(@ + multiplier * entry.amount_usd, 1)]

Ledger(accs, ents) == [accounts |-> accs, entries |-> ents]

\* CreditEntry.save applying the entry to its account on every save.
SaveEntryAlwaysApplies(accs, ents, entry, pk) ==
    IF pk = NoPk
    THEN Ledger(ApplyToAccount(accs, entry), Append(ents, entry))
    ELSE Ledger(ApplyToAccount(accs, entry), [ents EXCEPT ![pk] = entry])

\* CreditEntry.save with its is_new test inverted.
SaveEntryAppliesWhenStored(accs, ents, entry, pk) ==
    IF pk = NoPk
    THEN Ledger(accs, Append(ents, entry))
    ELSE Ledger(ApplyToAccount(accs, entry), [ents EXCEPT ![pk] = entry])

\* CreditEntry.save: the row is written, and only a new entry (its pk is None) is
\* applied to its account.
SaveEntry(accs, ents, entry, pk) ==
    IF pk = NoPk
    THEN Ledger(ApplyToAccount(accs, entry), Append(ents, entry))
    ELSE Ledger(accs, [ents EXCEPT ![pk] = entry])

\* POST /credit-entries/ (and CreditEntry.objects.create): the account is
\* the stored row, the entry is new.
AppendCreditEntry(account, direction, amount_uzs, amount_usd) ==
    /\ Len(entries) < MaxEntries
    /\ LET entry == CreditEntry(account, direction, amount_uzs, amount_usd)
           r == SaveEntry(accounts, entries, entry, NoPk)
       IN  /\ accounts' = r.accounts
           /\ entries' = r.entries
           /\ last' = Result("append_entry", TRUE, "", <<Len(r.entries)>>)
    /\ UNCHANGED <<checks, stock, movements, sales, returns, audit, clock, pc, loc, tx>>

\* A stored entry is read and saved again as it is.
ResaveCreditEntry(pk) ==
    /\ pk \in 1..Len(entries)
    /\ LET r == SaveEntry(accounts, entries, entries[pk], pk)
       IN  /\ accounts' = r.accounts
           /\ entries' = r.entries
           /\ last' = Result("resave_entry", TRUE, "", <<pk>>)
    /\ UNCHANGED <<checks, stock, movements, sales, returns, audit, clock, pc, loc, tx>>

\* PUT /credit-entries/{pk}/: the serializer sets the validated fields on the
\* stored entry and saves it; entries[pk] is the pk-th row of the table.
UpdateCreditEntry(pk, direction, amount_uzs, amount_usd) ==
    /\ pk \in 1..Len(entries)
    /\ LET entry == CreditEntry(entries[pk].account, direction, amount_uzs,
                                amount_usd)
           r == SaveEntry(accounts, entries, entry, pk)
       IN  /\ accounts' = r.accounts
           /\ entries' = r.entries
           /\ last' = Result("update_entry", TRUE, "", <<pk>>)
    /\ UNCHANGED <<checks, stock, movements, sales, returns, audit, clock, pc, loc, tx>>

\* The sequence without its i-th element.
Remove(s, i) == [j \in 1..(Len(s) - 1) |-> IF j < i THEN s[j] ELSE s[j + 1]]

\* DELETE /credit-entries/{pk}/: Model.delete removes the row; CreditEntry
\* defines no delete and no signal touches the account.
DeleteCreditEntry(pk) ==
    /\ pk \in 1..Len(entries)
    /\ entries' = Remove(entries, pk)
    /\ last' = Result("delete_entry", TRUE, "", <<pk>>)
    /\ UNCHANGED <<checks, stock, movements, sales, returns, audit, accounts, clock,
                   pc, loc, tx>>

\* A request appending an entry, statement by statement.  No transaction is
\* open: each statement commits on its own.
IdleAppend == [entry |-> CreditEntry(None, None, 0, 0), account |-> CreditAccount]

\* The account row apply_to_account saves: the balances of the instance the
\* request loaded, plus the entry's signed amounts.
AppliedBalance(accs, loaded, entry) ==
    ApplyToAccount([accs EXCEPT ![entry.account] = loaded], entry)[entry.account]

\* POST /credit-entries/, validation: the account named by the request is
\* loaded into memory.
BeginAppend(p, entry) ==
    /\ pc[p] = "idle"
    /\ loc' = [loc EXCEPT ![p] = [entry |-> entry,
                                  account |-> accounts[entry.account]]]
    /\ pc' = [pc EXCEPT ![p] = "insert"]
    /\ UNCHANGED <<checks, stock, movements, sales, returns, audit, accounts, entries,
                   clock, last, tx>>

\* CreditEntry.save, super().save(): the entry row is inserted.
AppendInsert(p) ==
    /\ pc[p] = "insert"
    /\ entries' = Append(entries, loc[p].entry)
    /\ pc' = [pc EXCEPT ![p] = "apply"]
    /\ UNCHANGED <<checks, stock, movements, sales, returns, audit, accounts, clock,
                   last, loc, tx>>

\* CreditEntry.save, apply_to_account(): the balances are computed from the
\* loaded instance and saved.
AppendApply(p) ==
    /\ pc[p] = "apply"
    /\ accounts' = [accounts EXCEPT ![loc[p].entry.account] =
                      AppliedBalance(accounts, loc[p].account, loc[p].entry)]
    /\ pc' = [pc EXCEPT ![p] = "done"]
    /\ last' = Result("append_entry", TRUE, "", <<p>>)
    /\ UNCHANGED <<checks, stock, movements, sales, returns, audit, entries, clock,
                   loc, tx>>

-----------------------------------------------------------------------------
(* Inventory Reconciliation: InventoryCheck, InventoryCheckLine. *)

CheckStatuses == {"draft", "in_progress", "completed"}

\* InventoryCheckLine with InventoryCheckLine.save: the difference is derived.
CheckLine(key, expected_quantity, actual_quantity) ==
    [stock |-> key, expected_quantity |-> expected_quantity,
     actual_quantity |-> actual_quantity,
     difference |-> actual_quantity - expected_quantity]

\* An InventoryCheckLine instance as its caller built it, not yet saved.
LineInstance(key, expected_quantity, actual_quantity, difference) ==
    [stock |-> key, expected_quantity |-> expected_quantity,
     actual_quantity |-> actual_quantity, difference |-> difference]

\* InventoryCheckLine.save storing the difference its caller set.
SaveLineAsSupplied(line) == line

\* InventoryCheckLine.save: the row that is stored.
SaveLine(line) ==
    [line EXCEPT !.difference = line.actual_quantity - line.expected_quantity]

\* InventoryCheckLine.objects.create(inventory_check=..., stock=..., ...):
\* a line for a stock row the check has no line for (unique_together).
AddCheckLine(cid, key, expected_quantity, actual_quantity, difference) ==
    /\ cid \in 1..Len(checks)
    /\ \A i \in 1..Len(checks[cid].lines) : checks[cid].lines[i].stock # key
    /\ checks' = [checks EXCEPT ![cid].lines =
                    Append(@, SaveLine(LineInstance(key, expected_quantity,
                                                    actual_quantity, difference)))]
    /\ last' = Result("save_line", TRUE, "",
                      <<cid, Len(checks[cid].lines) + 1, difference>>)
    /\ UNCHANGED <<stock, movements, sales, returns, audit, accounts, entries,
                   clock, pc, loc, tx>>

\* A stored line is loaded, its counts and its difference are set and it is
\* saved.
EditCheckLine(cid, i, expected_quantity, actual_quantity, difference) ==
    /\ cid \in 1..Len(checks)
    /\ i \in 1..Len(checks[cid].lines)
    /\ checks' = [checks EXCEPT ![cid].lines[i] =
                    SaveLine(LineInstance(@.stock, expected_quantity,
                                          actual_quantity, difference))]
    /\ last' = Result("save_line", TRUE, "", <<cid, i, difference>>)
    /\ UNCHANGED <<stock, movements, sales, returns, audit, accounts, entries,
                   clock, pc, loc, tx>>

InventoryCheck(warehouse, status, lines) ==
    [warehouse |-> warehouse, status |-> status, lines |-> lines]

Abs(n) == IF n < 0 THEN -n ELSE n

\* apply_adjustments' loop adding each line's difference to its stock row.
RECURSIVE AdjustLinesByDelta(_, _, _)
AdjustLinesByDelta(d, cid, i) ==
    LET check == d.checks[cid]
    IN  IF i > Len(check.lines) THEN d
        ELSE LET line == check.lines[i]
                 key == line.stock
                 m == IF line.difference > 0
                      THEN Movement("in", None, key[1], key[2], key[3],
                                    line.difference, <<"check", cid>>)
                      ELSE Movement("loss", key[1], None, key[2], key[3],
                                    Abs(line.difference), <<"check", cid>>)
             IN  IF line.difference = 0 THEN AdjustLinesByDelta(d, cid, i + 1)
                 ELSE AdjustLinesByDelta(
                          [d EXCEPT !.stock[key] = @ + line.difference,
                                    !.movements = Append(@, m)],
                          cid, i + 1)

\* The loop of apply_adjustments from line i on: each line whose difference
\* is not 0 overwrites its stock row with the counted quantity and records an
\* inbound or loss movement of the difference, which is not applied.
RECURSIVE AdjustLines(_, _, _)
AdjustLines(d, cid, i) ==
    LET check == d.checks[cid]
    IN  IF i > Len(check.lines) THEN d
        ELSE LET line == check.lines[i]
                 key == line.stock
                 m == IF line.difference > 0
                      THEN Movement("in", None, key[1], key[2], key[3],
                                    line.difference, <<"check", cid>>)
                      ELSE Movement("loss", key[1], None, key[2], key[3],
                                    Abs(line.difference), <<"check", cid>>)
             IN  IF line.difference = 0 THEN AdjustLines(d, cid, i + 1)
                 ELSE AdjustLines(
                          [d EXCEPT !.stock[key] = line.actual_quantity,
                                    !.movements = Append(@, m)],
                          cid, i + 1)

CheckDB == [stock |-> stock, movements |-> movements, checks |-> checks]

\* apply_adjustments without its test of the check's status.
AdjustmentsUnguarded(d, cid) ==
    OpResult(TRUE, "", AdjustLines(d, cid, 1), 0)

\* InventoryCheckViewSet.apply_adjustments: refused unless the check is
\* completed.
AdjustmentsOf(d, cid) ==
    IF d.checks[cid].status # "completed"
    THEN OpResult(FALSE, "not_completed", d, 0)
    ELSE OpResult(TRUE, "", AdjustLines(d, cid, 1), 0)

\* check.status = status; check.save()
SetCheckStatus(cid, status) ==
    /\ cid \in 1..Len(checks)
    /\ checks' = [checks EXCEPT ![cid].status = status]
    /\ last' = Result("set_check_status", TRUE, "", <<cid>>)
    /\ UNCHANGED <<stock, movements, sales, returns, audit, accounts, entries,
                   clock, pc, loc, tx>>

\* POST /inventory-checks/{id}/apply-adjustments/
ApplyAdjustments(cid) ==
    /\ cid \in 1..Len(checks)
    /\ Len(movements) <= MaxCalls
    /\ LET r == AdjustmentsOf(CheckDB, cid)
       IN  /\ stock' = r.db.stock
           /\ movements' = r.db.movements
           /\ last' = Result("apply_adjustments", r.ok, r.err, <<cid>>)
    /\ UNCHANGED <<checks, sales, returns, audit, accounts, entries, clock,
                   pc, loc, tx>>

-----------------------------------------------------------------------------
(* Requests served side by side.  A request runs its handler one database
   statement at a time; the statements of different requests interleave.
   pc[p] is where request p stands, loc[p] its in-memory values, tx[p] the
   writes of its open transaction.  The store is PostgreSQL at READ COMMITTED:
   a SELECT sees the committed rows and the request's own writes and never
   waits; an UPDATE of a row waits while another open transaction holds the
   row, and then writes. *)

Procs == {1, 2}

NoTx == [writes |-> <<>>, movements |-> <<>>]

NoMovement == Movement(None, None, None, None, None, 0, <<>>)

Idle == [sid |-> 0, actor |-> None, i |-> 0, qty |-> 0, m |-> NoMovement,
         adj |-> <<>>, applied |-> 0]

\* The stock rows a SELECT of request p sees.
View(p) ==
    [k \in DOMAIN stock \cup DOMAIN tx[p].writes |->
        IF k \in DOMAIN tx[p].writes THEN tx[p].writes[k] ELSE stock[k]]

\* Another request's open transaction has written the row and holds it.
Locked(p, key) == \E q \in Procs \ {p} : key \in DOMAIN tx[q].writes

\* The Stock instance a request holds in memory after get_or_create.
Row(key, qty) == [k \in {key} |-> qty]

Put(f, key, qty) ==
    [k \in DOMAIN f \cup {key} |-> IF k = key THEN qty ELSE f[k]]

\* Sale.finalize(actor) is entered: the atomic block opens.
BeginFinalize(p, sid, actor) ==
    /\ pc[p] = "idle"
    /\ sid \in 1..Len(sales)
    /\ pc' = [pc EXCEPT ![p] =
                IF Len(sales[sid].items) = 0 THEN "commit" ELSE "read"]
    /\ loc' = [loc EXCEPT ![p] = [Idle EXCEPT !.sid = sid, !.actor = actor,
                                              !.i = 1]]
    /\ tx' = [tx EXCEPT ![p] = NoTx]
    /\ UNCHANGED <<checks, stock, movements, sales, returns, audit, accounts, entries,
                   clock, last>>

\* _adjust_stock for the current item, first statement: get_or_create fetches
\* the stock row (creating it at 0 when there is none) into memory.
FinalizeRead(p) ==
    /\ pc[p] = "read"
    /\ LET sale == sales[loc[p].sid]
           item == sale.items[loc[p].i]
           key == Key(sale.warehouse, item.product, item.part)
       IN  /\ HasRow(View(p), key) \/ ~Locked(p, key)
           /\ tx' = IF HasRow(View(p), key) THEN tx
                    ELSE [tx EXCEPT ![p].writes = Put(@, key, 0)]
           /\ loc' = [loc EXCEPT ![p].qty = GetOrCreate(View(p), key)[key]]
    /\ pc' = [pc EXCEPT ![p] = "write"]
    /\ UNCHANGED <<checks, stock, movements, sales, returns, audit, accounts, entries,
                   clock, last>>

\* _adjust_stock for the current item, the rest: the new quantity is computed
\* from the fetched one and checked; a refusal raises out of finalize and the
\* transaction rolls back; otherwise stock.save() writes the new quantity.
FinalizeWrite(p) ==
    /\ pc[p] = "write"
    /\ LET sid == loc[p].sid
           sale == sales[sid]
           item == sale.items[loc[p].i]
           key == Key(sale.warehouse, item.product, item.part)
           m == Movement("out", sale.warehouse, None, item.product, item.part,
                         item.quantity, <<"Sale", sid>>)
           r == Apply(Row(key, loc[p].qty), m)
       IN  IF ~r.ok
           THEN /\ tx' = [tx EXCEPT ![p] = NoTx]
                /\ pc' = [pc EXCEPT ![p] = "done"]
                /\ last' = Result("finalize", FALSE, r.err,
                                  <<sid, loc[p].actor, loc[p].i>>)
                /\ UNCHANGED loc
           ELSE /\ ~Locked(p, key)
                /\ tx' = [tx EXCEPT ![p].writes = Put(@, key, r.stock[key]),
                                    ![p].movements = Append(@, m)]
                /\ loc' = [loc EXCEPT ![p].i = @ + 1]
                /\ pc' = [pc EXCEPT ![p] =
                            IF loc[p].i + 1 > Len(sale.items)
                            THEN "commit" ELSE "read"]
                /\ UNCHANGED last
    /\ UNCHANGED <<checks, stock, movements, sales, returns, audit, accounts, entries,
                   clock>>

\* The end of Sale.finalize: totals, completed_at and the audit fact are
\* saved and the atomic block commits.
FinalizeCommit(p) ==
    /\ pc[p] = "commit"
    /\ LET sid == loc[p].sid
           actor == loc[p].actor
       IN  /\ stock' = View(p)
           /\ movements' = movements \o tx[p].movements
           /\ sales' = [sales EXCEPT ![sid] =
                          [RecomputeTotals(@) EXCEPT !.completed_at = clock]]
           /\ audit' = IF actor # None
                       THEN Append(audit,
                                AuditFact("sale_finalized", actor, "Sale", sid,
                                          <<"sale_number", sid>>))
                       ELSE audit
           /\ last' = Result("finalize", TRUE, "", <<sid, actor, 0>>)
    /\ clock' = clock + 1
    /\ tx' = [tx EXCEPT ![p] = NoTx]
    /\ pc' = [pc EXCEPT ![p] = "done"]
    /\ UNCHANGED <<checks, returns, accounts, entries, loc>>

\* A request running sale_return.process(actor), statement by statement:
\* ret is the SaleReturn instance the request loaded.
IdleProcess == [rid |-> 0, actor |-> None, i |-> 0, qty |-> 0,
                ret |-> NewReturn(0, None, <<>>)]

\* The request loads the stored return into memory.
BeginProcess(p, rid, actor) ==
    /\ pc[p] = "idle"
    /\ rid \in 1..Len(returns)
    /\ loc' = [loc EXCEPT ![p] = [IdleProcess EXCEPT !.rid = rid,
                                                     !.actor = actor,
                                                     !.ret = returns[rid]]]
    /\ pc' = [pc EXCEPT ![p] = "check"]
    /\ UNCHANGED <<checks, stock, movements, sales, returns, audit, accounts, entries,
                   clock, last, tx>>

\* SaleReturn.process is entered: self.status of the loaded instance is
\* tested; unless it is completed the atomic block opens.
ProcessCheck(p) ==
    /\ pc[p] = "check"
    /\ IF loc[p].ret.status = "completed"
       THEN /\ pc' = [pc EXCEPT ![p] = "done"]
            /\ last' = Result("process", TRUE, "",
                              <<loc[p].rid, loc[p].actor, -1>>)
            /\ UNCHANGED <<loc, tx>>
       ELSE /\ pc' = [pc EXCEPT ![p] =
                        IF Len(loc[p].ret.items) = 0 THEN "commit" ELSE "read"]
            /\ loc' = [loc EXCEPT ![p].i = 1]
            /\ tx' = [tx EXCEPT ![p] = NoTx]
            /\ UNCHANGED last
    /\ UNCHANGED <<checks, stock, movements, sales, returns, audit, accounts, entries,
                   clock>>

\* The inbound movement of the return line the request stands at.
ProcessMovement(p) ==
    LET ret == loc[p].ret
        item == ret.items[loc[p].i]
        sale_item == sales[item.sale_item[1]].items[item.sale_item[2]]
    IN  Movement("in", None, sales[ret.sale].warehouse, sale_item.product,
                 sale_item.part, item.quantity, <<"Return", loc[p].rid>>)

\* _adjust_stock for the current return line, first statement: get_or_create
\* fetches the stock row (creating it at 0 when there is none) into memory.
ProcessRead(p) ==
    /\ pc[p] = "read"
    /\ LET m == ProcessMovement(p)
           key == Key(m.warehouse_to, m.product, m.part)
       IN  /\ HasRow(View(p), key) \/ ~Locked(p, key)
           /\ tx' = IF HasRow(View(p), key) THEN tx
                    ELSE [tx EXCEPT ![p].writes = Put(@, key, 0)]
           /\ loc' = [loc EXCEPT ![p].qty = GetOrCreate(View(p), key)[key]]
    /\ pc' = [pc EXCEPT ![p] = "write"]
    /\ UNCHANGED <<checks, stock, movements, sales, returns, audit, accounts, entries,
                   clock, last>>

\* _adjust_stock for the current return line, the rest: the new quantity is
\* computed from the fetched one and stock.save() writes it, once no other
\* open transaction holds the row.
ProcessWrite(p) ==
    /\ pc[p] = "write"
    /\ LET m == ProcessMovement(p)
           key == Key(m.warehouse_to, m.product, m.part)
           r == Apply(Row(key, loc[p].qty), m)
       IN  /\ ~Locked(p, key)
           /\ tx' = [tx EXCEPT ![p].writes = Put(@, key, r.stock[key]),
                               ![p].movements = Append(@, m)]
    /\ loc' = [loc EXCEPT ![p].i = @ + 1]
    /\ pc' = [pc EXCEPT ![p] =
                IF loc[p].i + 1 > Len(loc[p].ret.items) THEN "commit" ELSE "read"]
    /\ UNCHANGED <<checks, stock, movements, sales, returns, audit, accounts, entries,
                   clock, last>>

\* The end of SaleReturn.process: the refund totals, the completed status
\* and processed_at are saved, the sale is set to refunded, the audit fact is
\* written and the atomic block commits.
ProcessCommit(p) ==
    /\ pc[p] = "commit"
    /\ LET rid == loc[p].rid
           actor == loc[p].actor
           ret == loc[p].ret
           n == Len(ret.items)
       IN  /\ stock' = View(p)
           /\ movements' = movements \o tx[p].movements
           /\ returns' = [returns EXCEPT
                            ![rid].total_refunded_uzs =
                                SeqSum([i \in 1..n |-> ret.items[i].refund_amount_uzs]),
                            ![rid].total_refunded_usd =
                                SeqSum([i \in 1..n |-> ret.items[i].refund_amount_usd]),
                            ![rid].status = "completed",
                            ![rid].processed_at = clock]
           /\ sales' = [sales EXCEPT ![ret.sale].status = "refunded"]
           /\ audit' = IF actor # None
                       THEN Append(audit,
                                AuditFact("sale_return_processed", actor,
                                          "SaleReturn", rid,
                                          <<"return_number", rid>>))
                       ELSE audit
           /\ last' = Result("process", TRUE, "", <<rid, actor, 0>>)
    /\ clock' = clock + 1
    /\ tx' = [tx EXCEPT ![p] = NoTx]
    /\ pc' = [pc EXCEPT ![p] = "done"]
    /\ UNCHANGED <<checks, accounts, entries, loc>>

\* The adjustments StockMovement.apply makes, in order, as
\* <<warehouse, delta>>.
Adjustments(m) ==
    IF m.movement_type = "transfer"
    THEN <<<<m.warehouse_from, -m.quantity>>, <<m.warehouse_to, m.quantity>>>>
    ELSE IF m.movement_type = "in" THEN <<<<m.warehouse_to, m.quantity>>>>
    ELSE <<<<m.warehouse_from, -m.quantity>>>>

\* POST /stock-movements/ up to the first adjustment: validate, then the
\* record is inserted; no transaction is open, each statement commits.
BeginMovement(p, m) ==
    /\ pc[p] = "idle"
    /\ IF ~ValidateMovement(m)
       THEN /\ pc' = [pc EXCEPT ![p] = "done"]
            /\ last' = Result("movement", FALSE, "invalid", m)
            /\ UNCHANGED <<movements, loc>>
       ELSE /\ movements' = Append(movements, m)
            /\ loc' = [loc EXCEPT ![p] = [Idle EXCEPT !.m = m,
                                                      !.adj = Adjustments(m)]]
            /\ pc' = [pc EXCEPT ![p] = "read"]
            /\ UNCHANGED last
    /\ UNCHANGED <<checks, stock, sales, returns, audit, accounts, entries, clock, tx>>

\* _adjust_stock for the next adjustment of the movement, first statement:
\* get_or_create fetches the row, creating it at 0 when there is none.
MovementRead(p) ==
    /\ pc[p] = "read"
    /\ LET key == Key(Head(loc[p].adj)[1], loc[p].m.product, loc[p].m.part)
       IN  /\ stock' = GetOrCreate(stock, key)
           /\ loc' = [loc EXCEPT ![p].qty = stock'[key]]
    /\ pc' = [pc EXCEPT ![p] = "write"]
    /\ UNCHANGED <<checks, movements, sales, returns, audit, accounts, entries, clock,
                   last, tx>>

\* _adjust_stock, the rest: the new quantity is computed from the fetched one
\* and checked; a refusal raises out of apply, what was saved before stays;
\* otherwise stock.save() writes the new quantity.
MovementWrite(p) ==
    /\ pc[p] = "write"
    /\ LET m == loc[p].m
           warehouse == Head(loc[p].adj)[1]
           key == Key(warehouse, m.product, m.part)
           r == AdjustStock(Row(key, loc[p].qty), warehouse,
                            Head(loc[p].adj)[2], m.product, m.part)
       IN  IF ~r.ok
           THEN /\ pc' = [pc EXCEPT ![p] = "done"]
                /\ last' = Result("movement", FALSE, r.err, m)
                /\ UNCHANGED <<stock, loc>>
           ELSE /\ stock' = Put(stock, key, r.stock[key])
                /\ loc' = [loc EXCEPT ![p].adj = Tail(@),
                                      ![p].applied = @ + 1]
                /\ pc' = [pc EXCEPT ![p] =
                            IF Len(loc[p].adj) > 1 THEN "read" ELSE "done"]
                /\ last' = IF Len(loc[p].adj) > 1 THEN last
                           ELSE Result("movement", TRUE, "", m)
    /\ UNCHANGED <<checks, movements, sales, returns, audit, accounts, entries, clock,
                   tx>>

-----------------------------------------------------------------------------
(* SpecMovement: stock-movement requests, one at a time, from any stock. *)

MovKeys == {Key(w, "p1", None) : w \in Warehouses}

AllStocks(keys) == UNION {[S -> 0..MaxQty] : S \in SUBSET keys}

\* The warehouse a movement type does not read is left NULL.
MovInputs ==
    {Movement(t, wf, wt, "p1", None, q, <<"manual", 0>>) :
        t \in {"transfer"}, wf \in Warehouses \cup {None},
        wt \in Warehouses \cup {None}, q \in 0..MaxQty}
    \cup
    {Movement("in", None, wt, "p1", None, q, <<"manual", 0>>) :
        wt \in Warehouses \cup {None}, q \in 0..MaxQty}
    \cup
    {Movement(t, wf, None, "p1", None, q, <<"manual", 0>>) :
        t \in {"out", "loss"}, wf \in Warehouses \cup {None}, q \in 0..MaxQty}

InitRest ==
    /\ sales = <<>>
    /\ returns = <<>>
    /\ audit = <<>>
    /\ checks = <<>>
    /\ accounts = <<>>
    /\ entries = <<>>
    /\ clock = 1
    /\ last = Result("none", TRUE, "", <<>>)
    /\ pc = <<>>
    /\ loc = <<>>
    /\ tx = <<>>

InitMovement ==
    /\ stock \in AllStocks(MovKeys)
    /\ movements = <<>>
    /\ InitRest

NextMovement == \E m \in MovInputs : CreateMovement(m)

SpecMovement == InitMovement /\ [][NextMovement]_vars

NonNegative(st) == \A k \in DOMAIN st : st[k] >= 0

\* The rows that existed keep their quantity; a row the call created holds 0.
QuantitiesKept(st, st2) ==
    /\ \A k \in DOMAIN st : k \in DOMAIN st2 /\ st2[k] = st[k]
    /\ \A k \in DOMAIN st2 \ DOMAIN st : st2[k] = 0

\* C1: under every sequence of movement requests (inbound, outbound, transfer,
\* loss, any warehouse) every stock row's quantity is >= 0 in every state, and
\* a request rejected because the result would be negative leaves every
\* quantity as it was.
C1_StockNeverNegative ==
    /\ NonNegative(stock)
    /\ [][/\ NonNegative(stock')
          /\ (last'.op = "movement" /\ last'.err = "insufficient_stock")
                => QuantitiesKept(stock, stock')]_vars

\* A request that would overdraw a row holding stock has been rejected.
C1_Witness ==
    /\ last.op = "movement"
    /\ last.err = "insufficient_stock"
    /\ last.arg.movement_type \in {"out", "loss", "transfer"}
    /\ Key(last.arg.warehouse_from, last.arg.product, last.arg.part) \in DOMAIN stock
    /\ stock[Key(last.arg.warehouse_from, last.arg.product, last.arg.part)] > 0

-----------------------------------------------------------------------------
(* SpecSale: sales built, created and finalized, one request at a time. *)

\* The endpoints authenticate their caller (actor "u1"); a direct call of
\* finalize or process may pass no actor.
Actors == {None, "u1"}

SaleKeys == {Key("w1", "p1", None), Key("w1", None, "q1")}

\* Any product row, with the part row absent or holding one unit.
SaleStocks ==
    {st \in AllStocks(SaleKeys) :
        Key("w1", None, "q1") \in DOMAIN st => st[Key("w1", None, "q1")] = 1}

\* Unit price 1.00 in each currency, no line discount.
ItemP(q) == SaleItem("p1", None, q, 100, 100, 0, 0)
ItemQ(q) == SaleItem(None, "q1", q, 100, 100, 0, 0)

SaleItemSeqs ==
    {<<ItemP(1)>>, <<ItemP(2)>>, <<ItemQ(1)>>, <<ItemP(1), ItemP(1)>>,
     <<ItemP(1), ItemQ(1)>>, <<ItemQ(1), ItemP(2)>>}

SalePaymentSeqs == {<<>>, <<SalePayment(200, 0)>>}

InitSale ==
    /\ stock \in SaleStocks
    /\ movements = <<>>
    /\ InitRest

NextSale ==
    \/ \E items \in SaleItemSeqs, payments \in SalePaymentSeqs :
          BuildSale("w1", "none", 0, items, payments)
    \/ \E items \in SaleItemSeqs, payments \in SalePaymentSeqs :
          CreateSale("w1", "none", 0, items, payments, "u1")
    \/ \E sid \in 1..Len(sales), actor \in Actors : FinalizeSale(sid, actor)

SpecSale == InitSale /\ [][NextSale]_vars

\* Quantity on hand of a key: its row's quantity, 0 without a row.
OnHand(st, key) == IF key \in DOMAIN st THEN st[key] ELSE 0

\* Units of the key that the items of a sale ask for.
Demand(sale, key) ==
    SeqSum([i \in 1..Len(sale.items) |->
              IF Key(sale.warehouse, sale.items[i].product, sale.items[i].part) = key
              THEN sale.items[i].quantity ELSE 0])

ItemKeys(sale) ==
    {Key(sale.warehouse, sale.items[i].product, sale.items[i].part) :
        i \in 1..Len(sale.items)}

Sufficient(st, sale) == \A k \in ItemKeys(sale) : Demand(sale, k) <= OnHand(st, k)

StoreUnchanged ==
    /\ stock' = stock
    /\ movements' = movements
    /\ sales' = sales
    /\ returns' = returns
    /\ audit' = audit

\* C3: a finalize of a sale with an item whose stock is insufficient fails, and
\* a failed finalize commits nothing: no movement record, no stock row or
\* quantity, no sale total, status or completion timestamp and no audit fact
\* differs from before the call (a failed POST /sales/ leaves no sale either).
C3_FailedFinalizeCommitsNothing ==
    [][/\ last'.op = "finalize" =>
            (last'.ok <=> Sufficient(stock, sales[last'.arg[1]]))
       /\ (last'.op \in {"finalize", "create_sale"} /\ ~last'.ok) =>
            StoreUnchanged]_vars

\* A finalize given an actor failed at the sale's second item, after the first
\* item's movement had been applied, and the store holds no trace of it.
C3_Witness ==
    /\ last.op = "finalize"
    /\ ~last.ok
    /\ last.err = "insufficient_stock"
    /\ last.arg[2] = "u1"
    /\ last.arg[3] = 2
    /\ movements = <<>>
    /\ audit = <<>>
    /\ sales[last.arg[1]].completed_at = NoTime

\* The outbound movements a finalize of the sale is to record, in item order.
ExpectedOutbound(sid, sale) ==
    [i \in 1..Len(sale.items) |->
        [movement_type |-> "out", warehouse_from |-> sale.warehouse,
         warehouse_to |-> None, product |-> sale.items[i].product,
         part |-> sale.items[i].part, quantity |-> sale.items[i].quantity,
         note |-> <<"Sale", sid>>]]

PaidInFull(sale) ==
    SeqSum([i \in 1..Len(sale.payments) |-> sale.payments[i].amount_uzs])
      >= SeqSum([i \in 1..Len(sale.items) |->
                   sale.items[i].quantity * sale.items[i].unit_price_uzs
                     - sale.items[i].discount_uzs])

\* C4: a successful finalize records exactly one outbound movement per sale
\* item (from the sale's warehouse, with the item's product/part and
\* quantity), lowers each item's stock row by the quantity asked of it, leaves
\* every other stock row as it was, sets the completion timestamp, and leaves
\* a fully paid sale with status paid.
C4_FinalizeDeductsStock ==
    [][(last'.op = "finalize" /\ last'.ok) =>
         LET sid == last'.arg[1]
             sale == sales[sid]
         IN  /\ movements' = movements \o ExpectedOutbound(sid, sale)
             /\ \A k \in ItemKeys(sale) :
                   k \in DOMAIN stock /\ stock'[k] = stock[k] - Demand(sale, k)
             /\ DOMAIN stock' = DOMAIN stock
             /\ \A k \in DOMAIN stock \ ItemKeys(sale) : stock'[k] = stock[k]
             /\ sales'[sid].completed_at # NoTime
             /\ sales'[sid].completed_at = clock
             /\ PaidInFull(sale) => sales'[sid].status = "paid"]_vars

\* A fully paid sale of two items was finalized: from 3 units, 2 were sold and
\* 1 is left.
C4_Witness ==
    /\ last.op = "finalize"
    /\ last.ok
    /\ Len(sales[last.arg[1]].items) = 2
    /\ Len(movements) = 2
    /\ sales[last.arg[1]].status = "paid"
    /\ sales[last.arg[1]].completed_at # NoTime
    /\ stock[Key("w1", "p1", None)] = 1

-----------------------------------------------------------------------------
(* SpecReturn: returns against one sale, one request at a time. *)

\* Return lines of sale sid: one or two units of one of its items, refunded
\* at the unit price.
ReturnItemInputs(sid) ==
    {SaleReturnItem(<<sid, i>>, q, q * 100, q * 100) :
        i \in 1..Len(sales[sid].items), q \in 1..2}

\* The return of every unit of every item of sale sid.
TotalReturn(sid) ==
    [i \in 1..Len(sales[sid].items) |->
        SaleReturnItem(<<sid, i>>, sales[sid].items[i].quantity,
                       sales[sid].items[i].quantity * 100,
                       sales[sid].items[i].quantity * 100)]

\* A return of one line, or the total return.
ReturnItemSeqs(sid) ==
    {<<a>> : a \in ReturnItemInputs(sid)} \cup {TotalReturn(sid)}

RetSaleItemSeqs ==
    {<<ItemP(1)>>, <<ItemP(2)>>, <<ItemP(1), ItemP(1)>>, <<ItemP(1), ItemQ(1)>>}

\* A sale has been built, with its items and a payment, and not yet finalized.
InitReturn ==
    /\ stock \in SaleStocks
    /\ movements = <<>>
    /\ returns = <<>>
    /\ audit = <<>>
    /\ checks = <<>>
    /\ accounts = <<>>
    /\ entries = <<>>
    /\ clock = 1
    /\ pc = <<>>
    /\ loc = <<>>
    /\ tx = <<>>
    /\ \E items \in RetSaleItemSeqs :
          /\ sales = <<AddPayments([NewSale("w1", "none", 0)
                                       EXCEPT !.items = items],
                                   <<SalePayment(200, 0)>>)>>
          /\ last = Result("build_sale", TRUE, "", <<1>>)

NextReturn ==
    \/ \E sid \in 1..Len(sales) : FinalizeSale(sid, "u1")
    \/ \E sid \in 1..Len(sales), status \in {"draft", "approved"} :
          \E items \in ReturnItemSeqs(sid) : BuildReturn(sid, status, items)
    \/ \E sid \in 1..Len(sales) :
          \E items \in ReturnItemSeqs(sid) : CreateReturn(sid, items, "u1")
    \/ \E rid \in 1..Len(returns), actor \in Actors : ProcessReturn(rid, actor)

SpecReturn == InitReturn /\ [][NextReturn]_vars

\* A step that processed a return (directly or on POST /sale-returns/) to
\* the end, not short-circuited.
Processed == last'.op \in {"process", "create_return"} /\ last'.ok /\ last'.arg[3] = 0

\* The inbound movements processing the return is to record, in line order.
ExpectedInbound(rid, ret) ==
    [i \in 1..Len(ret.items) |->
        [movement_type |-> "in", warehouse_from |-> None,
         warehouse_to |-> sales[ret.sale].warehouse,
         product |-> sales[ret.items[i].sale_item[1]].items[ret.items[i].sale_item[2]].product,
         part |-> sales[ret.items[i].sale_item[1]].items[ret.items[i].sale_item[2]].part,
         quantity |-> ret.items[i].quantity,
         note |-> <<"Return", rid>>]]

ReturnKey(ret, i) ==
    Key(sales[ret.sale].warehouse,
        sales[ret.items[i].sale_item[1]].items[ret.items[i].sale_item[2]].product,
        sales[ret.items[i].sale_item[1]].items[ret.items[i].sale_item[2]].part)

ReturnKeys(ret) == {ReturnKey(ret, i) : i \in 1..Len(ret.items)}

\* Units of the key that the lines of a return give back.
Returned(ret, key) ==
    SeqSum([i \in 1..Len(ret.items) |->
              IF ReturnKey(ret, i) = key THEN ret.items[i].quantity ELSE 0])

\* The return gives back every item of its sale, each in full, once.
IsTotalReturn(ret) ==
    /\ Len(ret.items) = Len(sales[ret.sale].items)
    /\ \A i \in 1..Len(ret.items) :
          /\ ret.items[i].sale_item = <<ret.sale, i>>
          /\ ret.items[i].quantity = sales[ret.sale].items[i].quantity

\* C6: round trip. Finalizing a sale whose items ask for Q units of a key that
\* holds exactly Q leaves that stock row at 0, and processing the return of
\* every unit of the sale from there brings the row back to Q.
C6_RoundTrip ==
    [][/\ (last'.op = "finalize" /\ last'.ok) =>
            \A k \in ItemKeys(sales[last'.arg[1]]) :
                OnHand(stock, k) = Demand(sales[last'.arg[1]], k) => stock'[k] = 0
       /\ (Processed /\ IsTotalReturn(returns'[last'.arg[1]])) =>
            \A k \in ItemKeys(sales[returns'[last'.arg[1]].sale]) :
                OnHand(stock, k) = 0 =>
                    OnHand(stock', k) = Demand(sales[returns'[last'.arg[1]].sale], k)]_vars

\* The sale was finalized once and then returned in full: the movement table
\* holds its outbound movements followed by the matching inbound ones, and the
\* product row is back at the 2 units the sale had taken.
C6_Witness ==
    /\ last.op \in {"process", "create_return"}
    /\ last.ok
    /\ last.arg[3] = 0
    /\ IsTotalReturn(returns[last.arg[1]])
    /\ Len(sales[1].items) = 2
    /\ movements = ExpectedOutbound(1, sales[1])
                     \o ExpectedInbound(last.arg[1], returns[last.arg[1]])
    /\ Demand(sales[1], Key("w1", "p1", None)) = 2
    /\ stock[Key("w1", "p1", None)] = 2

\* C7: processing a return that is not completed records one inbound movement
\* per return line (into the sale's warehouse, the sale item's product/part,
\* the returned quantity) and raises each such stock row by the quantity
\* returned to it, other rows staying as they were; the return's refund totals
\* become the sums of its lines' refund amounts, per currency, and the return
\* is completed with its timestamp set.
C7_ProcessRestocks ==
    [][Processed =>
         LET rid == last'.arg[1]
             ret == returns'[rid]
             n == Len(ret.items)
         IN  /\ movements' = movements \o ExpectedInbound(rid, ret)
             /\ DOMAIN stock' = DOMAIN stock \cup ReturnKeys(ret)
             /\ \A k \in ReturnKeys(ret) :
                   stock'[k] = OnHand(stock, k) + Returned(ret, k)
             /\ \A k \in DOMAIN stock \ ReturnKeys(ret) : stock'[k] = stock[k]
             /\ ret.total_refunded_uzs =
                   SeqSum([i \in 1..n |-> ret.items[i].refund_amount_uzs])
             /\ ret.total_refunded_usd =
                   SeqSum([i \in 1..n |-> ret.items[i].refund_amount_usd])
             /\ ret.status = "completed"
             /\ ret.processed_at = clock
             /\ ret.processed_at # NoTime]_vars

\* An approved return of two lines was processed.
C7_Witness ==
    /\ last.op = "process"
    /\ last.ok
    /\ last.arg[3] = 0
    /\ Len(returns[last.arg[1]].items) = 2
    /\ returns[last.arg[1]].status = "completed"
    /\ returns[last.arg[1]].total_refunded_uzs = 200
    /\ Len(movements) >= 2

\* C8: process on a completed return does nothing, however often it is
\* called: no movement is recorded, no stock row changes, and the return's
\* refund totals, status and timestamp (and the rest of the store) stay.
C8_ProcessCompletedIsNoOp ==
    [][(last'.op = "process" /\ returns[last'.arg[1]].status = "completed") =>
         /\ StoreUnchanged
         /\ clock' = clock
         /\ last'.ok]_vars

\* process was called on a return that was already completed.
C8_Witness ==
    /\ last.op = "process"
    /\ last.arg[3] = -1
    /\ returns[last.arg[1]].status = "completed"
    /\ Len(movements) >= 1

\* C9: processing a return sets the parent sale's status to refunded, whatever
\* share of the units sold is returned.
C9_ReturnForcesRefunded ==
    [][Processed => sales'[returns'[last'.arg[1]].sale].status = "refunded"]_vars

\* One of the two units sold was returned and the sale is refunded.
C9_Witness ==
    /\ last.op \in {"process", "create_return"}
    /\ last.ok
    /\ last.arg[3] = 0
    /\ UnitsSold(sales[returns[last.arg[1]].sale]) = 2
    /\ UnitsReturned(returns[last.arg[1]]) = 1
    /\ sales[returns[last.arg[1]].sale].completed_at # NoTime
    /\ sales[returns[last.arg[1]].sale].status = "refunded"

-----------------------------------------------------------------------------
(* SpecCredit: entries appended to an account that starts at zero, and stored
   entries saved again. *)

AmountsUzs == {0, 5000, 15000}
AmountsUsd == {-100, 0, 250}

InitCredit ==
    /\ stock = <<>>
    /\ movements = <<>>
    /\ sales = <<>>
    /\ returns = <<>>
    /\ audit = <<>>
    /\ checks = <<>>
    /\ accounts = [a \in Accounts |-> CreditAccount]
    /\ entries = <<>>
    /\ clock = 1
    /\ last = Result("none", TRUE, "", <<>>)
    /\ pc = <<>>
    /\ loc = <<>>
    /\ tx = <<>>

NextCredit ==
    \/ \E a \in Accounts, d \in Directions, x \in AmountsUzs, y \in AmountsUsd :
          AppendCreditEntry(a, d, x, y)
    \/ \E pk \in 1..MaxEntries : ResaveCreditEntry(pk)

SpecCredit == InitCredit /\ [][NextCredit]_vars

\* Sum over the stored entries of the account in one direction.
Total(account, direction, field) ==
    SeqSum([i \in 1..Len(entries) |->
              IF entries[i].account = account /\ entries[i].direction = direction
              THEN entries[i][field] ELSE 0])

\* C10: from a zero balance, after any sequence of appended entries the
\* account's balance is the sum of its debits minus the sum of its credits,
\* per currency, each entry counted once.
C10_BalanceIsDebitsMinusCredits ==
    \A a \in Accounts :
        /\ accounts[a].balance_uzs =
              Total(a, "debit", "amount_uzs") - Total(a, "credit", "amount_uzs")
        /\ accounts[a].balance_usd =
              Total(a, "debit", "amount_usd") - Total(a, "credit", "amount_usd")

\* A debit of 15000 then a credit of 5000, the second entry saved again:
\* the balance is 10000.
C10_Witness ==
    /\ Len(entries) = 2
    /\ entries[1].direction = "debit" /\ entries[1].amount_uzs = 15000
    /\ entries[2].direction = "credit" /\ entries[2].amount_uzs = 5000
    /\ last.op = "resave_entry"
    /\ accounts["a1"].balance_uzs = 10000

-----------------------------------------------------------------------------
(* SpecConcFinalize: two requests, each finalizing its own one-line sale of
   the same product from the same warehouse, which received Q units. *)

ConcKey == Key("w1", "p1", None)

Receipt(warehouse, qty) ==
    Movement("in", None, warehouse, "p1", None, qty, <<"receipt", 0>>)

InitConcFinalize ==
    /\ \E Q \in 1..MaxQty :
          /\ stock = Row(ConcKey, Q)
          /\ movements = <<Receipt("w1", Q)>>
    /\ \E q1 \in 1..MaxQty, q2 \in 1..MaxQty :
          sales = <<[NewSale("w1", "none", 0) EXCEPT !.items = <<ItemP(q1)>>],
                    [NewSale("w1", "none", 0) EXCEPT !.items = <<ItemP(q2)>>]>>
    /\ returns = <<>>
    /\ audit = <<>>
    /\ checks = <<>>
    /\ accounts = <<>>
    /\ entries = <<>>
    /\ clock = 1
    /\ last = Result("none", TRUE, "", <<>>)
    /\ pc = [p \in Procs |-> "idle"]
    /\ loc = [p \in Procs |-> Idle]
    /\ tx = [p \in Procs |-> NoTx]

NextConcFinalize ==
    \/ \E p \in Procs : BeginFinalize(p, p, "u1")
    \/ \E p \in Procs : FinalizeRead(p)
    \/ \E p \in Procs : FinalizeWrite(p)
    \/ \E p \in Procs : FinalizeCommit(p)

SpecConcFinalize == InitConcFinalize /\ [][NextConcFinalize]_vars

\* Units of the key over the stored movements of one type.
Units(mtype, key) ==
    SeqSum([i \in 1..Len(movements) |->
              IF /\ movements[i].movement_type = mtype
                 /\ key = Key(IF mtype = "in" THEN movements[i].warehouse_to
                              ELSE movements[i].warehouse_from,
                              movements[i].product, movements[i].part)
              THEN movements[i].quantity ELSE 0])

\* C2: two concurrent finalizes on one stock row never both succeed when
\* their quantities together exceed what is on hand: in every state the units
\* sold by finalizes that succeeded are at most the units that were in stock.
C2_NoJointOverdraw ==
    /\ Units("out", ConcKey) <= Units("in", ConcKey)
    /\ (pc[1] = "done" /\ pc[2] = "done"
        /\ sales[1].completed_at # NoTime /\ sales[2].completed_at # NoTime)
          => sales[1].items[1].quantity + sales[2].items[1].quantity
                <= Units("in", ConcKey)

-----------------------------------------------------------------------------
(* SpecConcTransfer: two requests, each posting one transfer between the two
   warehouses. *)

Transfers ==
    {Movement("transfer", wf, wt, "p1", None, q, <<"manual", 0>>) :
        wf \in Warehouses, wt \in Warehouses, q \in 1..MaxQty}

InitConcTransfer ==
    /\ stock \in [MovKeys -> 0..MaxQty]
    /\ movements = <<>>
    /\ sales = <<>>
    /\ returns = <<>>
    /\ audit = <<>>
    /\ checks = <<>>
    /\ accounts = <<>>
    /\ entries = <<>>
    /\ clock = 1
    /\ last = Result("none", TRUE, "", <<>>)
    /\ pc = [p \in Procs |-> "idle"]
    /\ loc = [p \in Procs |-> Idle]
    /\ tx = [p \in Procs |-> NoTx]

NextConcTransfer ==
    \/ \E p \in Procs, m \in Transfers : BeginMovement(p, m)
    \/ \E p \in Procs : MovementRead(p)
    \/ \E p \in Procs : MovementWrite(p)

SpecConcTransfer == InitConcTransfer /\ [][NextConcTransfer]_vars

\* C5: a transfer adjusts both rows or neither: no committed state has the
\* source of a transfer deducted and its destination not credited.
C5_TransferAllOrNothing ==
    \A p \in Procs :
        loc[p].m.movement_type = "transfer" => loc[p].applied # 1

-----------------------------------------------------------------------------
(* Saving a stored entry again. *)

\* C11: saving an entry that is already stored, however often, leaves the
\* balances of every account as they were: only the first save applies the
\* entry's delta.
C11_ResaveDoesNotReapply ==
    [][last'.op = "resave_entry" => accounts' = accounts]_vars

\* A stored debit of 5000 was saved again and the balance is still 5000.
C11_Witness ==
    /\ last.op = "resave_entry"
    /\ Len(entries) = 1
    /\ entries[1].direction = "debit"
    /\ entries[1].amount_uzs = 5000
    /\ accounts["a1"].balance_uzs = 5000

-----------------------------------------------------------------------------
(* SpecConcCredit: two requests, each appending one entry to the same
   account, which starts at zero. *)

InitConcCredit ==
    /\ stock = <<>>
    /\ movements = <<>>
    /\ sales = <<>>
    /\ returns = <<>>
    /\ audit = <<>>
    /\ checks = <<>>
    /\ accounts = [a \in Accounts |-> CreditAccount]
    /\ entries = <<>>
    /\ clock = 1
    /\ last = Result("none", TRUE, "", <<>>)
    /\ pc = [p \in Procs |-> "idle"]
    /\ loc = [p \in Procs |-> IdleAppend]
    /\ tx = [p \in Procs |-> NoTx]

NextConcCredit ==
    \/ \E p \in Procs, a \in Accounts, d \in Directions,
          x \in AmountsUzs, y \in AmountsUsd :
          BeginAppend(p, CreditEntry(a, d, x, y))
    \/ \E p \in Procs : AppendInsert(p)
    \/ \E p \in Procs : AppendApply(p)

SpecConcCredit == InitConcCredit /\ [][NextConcCredit]_vars

\* C12: two concurrent appends to one account are serialized: once both
\* requests are done, the balance carries the delta of both entries.
C12_NoLostUpdate ==
    (\A p \in Procs : pc[p] = "done") => C10_BalanceIsDebitsMinusCredits

-----------------------------------------------------------------------------
(* SpecTotals: one sale under each discount policy; items and payments are
   attached and the totals recomputed. *)

\* Discount policies: none, 5 %, 10.5 %, and a fixed 5.00.
DiscountPolicies ==
    {<<"none", 0>>, <<"percent", 500>>, <<"percent", 1050>>, <<"amount", 500>>}

\* A line priced in UZS, a line priced in USD, a line priced in both.
TotalsItems ==
    {SaleItem("p1", None, 1, 100, 0, 0, 0),
     SaleItem("p1", None, 2, 0, 500, 0, 0),
     SaleItem("p1", None, 1, 333, 100, 0, 0)}

TotalsPayments == {SalePayment(100, 0), SalePayment(0, 1000)}

InitTotals ==
    /\ stock = <<>>
    /\ movements = <<>>
    /\ \E policy \in DiscountPolicies :
          sales = <<NewSale("w1", policy[1], policy[2])>>
    /\ returns = <<>>
    /\ audit = <<>>
    /\ checks = <<>>
    /\ accounts = <<>>
    /\ entries = <<>>
    /\ clock = 1
    /\ last = Result("none", TRUE, "", <<>>)
    /\ pc = <<>>
    /\ loc = <<>>
    /\ tx = <<>>

NextTotals ==
    \/ \E item \in TotalsItems : AddItem(1, item)
    \/ RecomputeSale(1)
    \/ \E payment \in TotalsPayments : AddPayment(1, payment)
    \/ \E payment \in TotalsPayments : ApiAddPayment(1, payment)

SpecTotals == InitTotals /\ [][NextTotals]_vars

Subtotal(sale, field) ==
    SeqSum([i \in 1..Len(sale.items) |-> sale.items[i][field]])

Paid(sale, field) ==
    SeqSum([i \in 1..Len(sale.payments) |-> sale.payments[i][field]])

\* d is num/den rounded to a nearest integer (either way on a tie).
IsRounded(d, num, den) ==
    /\ 2 * (d * den - num) <= den
    /\ 2 * (num - d * den) <= den

\* discount is the sale's discount on the subtotal under its policy.
IsDiscount(sale, subtotal, discount) ==
    IF sale.discount_type = "percent"
    THEN IsRounded(discount, subtotal * sale.discount_value, 10000)
    ELSE IF sale.discount_type = "amount" THEN discount = sale.discount_value
    ELSE discount = 0

\* C13: after a recompute, in each currency the stored subtotal is the sum of
\* the line totals and total = subtotal - discount, the discount being
\* subtotal x percent / 100 (to the hundredth), the fixed value, or 0.
C13_TotalIsSubtotalMinusDiscount ==
    last.op = "recompute" =>
        LET sale == sales[last.arg[1]]
        IN  /\ sale.subtotal_uzs = Subtotal(sale, "line_total_uzs")
            /\ sale.subtotal_usd = Subtotal(sale, "line_total_usd")
            /\ IsDiscount(sale, sale.subtotal_uzs, sale.subtotal_uzs - sale.total_uzs)
            /\ IsDiscount(sale, sale.subtotal_usd, sale.subtotal_usd - sale.total_usd)

\* C13 as the code has it: the fixed discount of the amount policy is taken
\* off the UZS total only; the USD total under that policy is the USD
\* subtotal.
C13_AmountDiscountOffUzsOnly ==
    last.op = "recompute" =>
        LET sale == sales[last.arg[1]]
        IN  /\ sale.subtotal_uzs = Subtotal(sale, "line_total_uzs")
            /\ sale.subtotal_usd = Subtotal(sale, "line_total_usd")
            /\ IsDiscount(sale, sale.subtotal_uzs, sale.subtotal_uzs - sale.total_uzs)
            /\ IF sale.discount_type = "amount"
               THEN sale.total_usd = sale.subtotal_usd
               ELSE IsDiscount(sale, sale.subtotal_usd,
                               sale.subtotal_usd - sale.total_usd)

\* A sale with lines in both currencies and a fixed discount of 5.00 was
\* recomputed: 5.00 is off the UZS total and nothing off the USD total.
C13_Witness ==
    /\ last.op = "recompute"
    /\ sales[1].discount_type = "amount"
    /\ sales[1].subtotal_uzs = 433
    /\ sales[1].total_uzs = -67
    /\ sales[1].subtotal_usd = 100
    /\ sales[1].total_usd = 100

\* C14: after a recompute the status follows paid versus total (the UZS
\* amounts, which are the ones recompute_totals compares): paid when
\* paid >= total, partial when 0 < paid < total, open when paid = 0.
C14_StatusFromPaidAndTotal ==
    last.op = "recompute" =>
        LET sale == sales[last.arg[1]]
        IN  /\ sale.total_paid_uzs >= sale.total_uzs => sale.status = "paid"
            /\ (0 < sale.total_paid_uzs /\ sale.total_paid_uzs < sale.total_uzs)
                  => sale.status = "partial"
            /\ sale.total_paid_uzs = 0 => sale.status = "open"

\* C14 as the code has it: the first rule wins where the rules overlap; the
\* status is open when nothing is paid and the total is above 0.
C14_StatusFirstRuleWins ==
    last.op = "recompute" =>
        LET sale == sales[last.arg[1]]
        IN  /\ sale.total_paid_uzs >= sale.total_uzs => sale.status = "paid"
            /\ (0 < sale.total_paid_uzs /\ sale.total_paid_uzs < sale.total_uzs)
                  => sale.status = "partial"
            /\ (sale.total_paid_uzs = 0 /\ sale.total_uzs > 0)
                  => sale.status = "open"

\* A sale paid exactly its total was recomputed and is paid.
C14_Witness ==
    /\ last.op = "recompute"
    /\ sales[1].total_uzs = 100
    /\ sales[1].total_paid_uzs = 100
    /\ sales[1].status = "paid"

\* C15: right after a new payment is stored, the sale's stored paid amount is
\* the sum of all its payments and change_due = max(paid - total, 0), per
\* currency, and the status is the one derived from them.
C15_PaymentRecomputesTotals ==
    last.op \in {"add_payment", "api_add_payment"} =>
        LET sale == sales[last.arg[1]]
        IN  /\ sale.total_paid_uzs = Paid(sale, "amount_uzs")
            /\ sale.total_paid_usd = Paid(sale, "amount_usd")
            /\ sale.change_due_uzs = Max(sale.total_paid_uzs - sale.total_uzs, 0)
            /\ sale.change_due_usd = Max(sale.total_paid_usd - sale.total_usd, 0)
            /\ sale.status = RecomputeTotals(sale).status

-----------------------------------------------------------------------------
(* SpecApply: movement records of any shape, applied directly, from any
   stock. *)

\* "count" stands for a movement_type outside MovementType.
ApplyInputs ==
    {Movement("transfer", wf, wt, "p1", None, q, <<"manual", 0>>) :
        wf \in Warehouses \cup {None}, wt \in Warehouses \cup {None},
        q \in {1, 2}}
    \cup
    {Movement("in", None, wt, "p1", None, q, <<"manual", 0>>) :
        wt \in Warehouses \cup {None}, q \in {1, 2}}
    \cup
    {Movement(t, wf, None, "p1", None, q, <<"manual", 0>>) :
        t \in {"out", "loss"}, wf \in Warehouses \cup {None}, q \in {1, 2}}
    \cup
    {Movement("count", wf, wt, "p1", None, q, <<"manual", 0>>) :
        wf \in {None, "w1"}, wt \in {None, "w2"}, q \in {1, 2}}

InitApply ==
    /\ stock \in AllStocks(MovKeys)
    /\ movements = <<>>
    /\ InitRest

NextApply == \E m \in ApplyInputs : ApplyMovement(m)

SpecApply == InitApply /\ [][NextApply]_vars

\* The movement lacks a warehouse its type needs, or its type is unknown.
Malformed(m) ==
    \/ m.movement_type = "transfer"
         /\ (m.warehouse_from = None \/ m.warehouse_to = None)
    \/ m.movement_type = "in" /\ m.warehouse_to = None
    \/ m.movement_type \in {"out", "loss"} /\ m.warehouse_from = None
    \/ m.movement_type \notin MovementTypes

\* C16: apply on a transfer lacking its source or destination, an inbound
\* without destination, an outbound or loss without source, or a movement of
\* unknown type fails, and the stock rows are as before (none changed, none
\* created).
C16_MalformedMovementRefused ==
    [][(last'.op = "apply" /\ Malformed(last'.arg)) =>
          (~last'.ok /\ stock' = stock)]_vars

\* A transfer with a source holding stock and no destination was refused.
C16_Witness ==
    /\ last.op = "apply"
    /\ ~last.ok
    /\ last.arg.movement_type = "transfer"
    /\ last.arg.warehouse_from = "w1"
    /\ last.arg.warehouse_to = None
    /\ OnHand(stock, Key("w1", "p1", None)) = 2

-----------------------------------------------------------------------------
(* SpecCheck: one inventory check over the rows of warehouse w1 and w2, in
   any status, with any expected and counted quantities, from any stock. *)

CheckQuantities == {0, 1, 2, MaxQty}

CheckLines(key) ==
    {<<>>} \cup {<<CheckLine(key, e, a)>> :
                    e \in CheckQuantities, a \in CheckQuantities}

InitCheck ==
    /\ stock \in [MovKeys -> {2, MaxQty}]
    /\ movements = <<>>
    /\ sales = <<>>
    /\ returns = <<>>
    /\ audit = <<>>
    /\ \E status \in CheckStatuses,
          l1 \in CheckLines(Key("w1", "p1", None)),
          l2 \in CheckLines(Key("w2", "p1", None)) :
          checks = <<InventoryCheck("w1", status, l1 \o l2)>>
    /\ accounts = <<>>
    /\ entries = <<>>
    /\ clock = 1
    /\ last = Result("none", TRUE, "", <<>>)
    /\ pc = <<>>
    /\ loc = <<>>
    /\ tx = <<>>

NextCheck ==
    \/ \E status \in CheckStatuses : SetCheckStatus(1, status)
    \/ ApplyAdjustments(1)

SpecCheck == InitCheck /\ [][NextCheck]_vars

\* C17: apply-adjustments on a check that is not completed is refused and
\* changes nothing: no stock row is overwritten, no movement recorded.
C17_NotCompletedRefused ==
    [][(last'.op = "apply_adjustments"
          /\ checks[last'.arg[1]].status # "completed") =>
          (~last'.ok /\ stock' = stock /\ movements' = movements
           /\ checks' = checks)]_vars

\* An in-progress check with a counted shortage was refused.
C17_Witness ==
    /\ last.op = "apply_adjustments"
    /\ ~last.ok
    /\ checks[1].status = "in_progress"
    /\ Len(checks[1].lines) = 2
    /\ checks[1].lines[1].difference = -2
    /\ stock[checks[1].lines[1].stock] = 3

\* The indices of the check's lines whose difference is not 0, in order.
RECURSIVE Nonzero(_, _)
Nonzero(check, i) ==
    IF i > Len(check.lines) THEN <<>>
    ELSE IF check.lines[i].difference = 0 THEN Nonzero(check, i + 1)
    ELSE <<i>> \o Nonzero(check, i + 1)

\* The movements apply-adjustments is to record for the check.
ExpectedAdjustments(cid, check) ==
    LET nz == Nonzero(check, 1)
    IN  [j \in 1..Len(nz) |->
            LET line == check.lines[nz[j]]
            IN  [movement_type |-> IF line.difference > 0 THEN "in" ELSE "loss",
                 warehouse_from |-> IF line.difference > 0 THEN None
                                    ELSE line.stock[1],
                 warehouse_to |-> IF line.difference > 0 THEN line.stock[1]
                                  ELSE None,
                 product |-> line.stock[2], part |-> line.stock[3],
                 quantity |-> Abs(line.difference),
                 note |-> <<"check", cid>>]]

\* C18: apply-adjustments on a completed check sets the stock row of every
\* line with a nonzero difference to the counted quantity and records exactly
\* one movement of |difference| for it (inbound for a surplus, loss for a
\* shortage), which is not applied; every other row is untouched and no other
\* movement is recorded.
C18_AdjustmentsOverwriteAndRecord ==
    [][(last'.op = "apply_adjustments"
          /\ checks[last'.arg[1]].status = "completed") =>
          LET cid == last'.arg[1]
              check == checks[cid]
              touched == {check.lines[i].stock : i \in
                            {j \in 1..Len(check.lines) :
                                check.lines[j].difference # 0}}
          IN  /\ last'.ok
              /\ DOMAIN stock' = DOMAIN stock
              /\ \A i \in 1..Len(check.lines) :
                    check.lines[i].difference # 0 =>
                       stock'[check.lines[i].stock] = check.lines[i].actual_quantity
              /\ \A k \in DOMAIN stock \ touched : stock'[k] = stock[k]
              /\ movements' = movements \o ExpectedAdjustments(cid, check)]_vars

\* Expected 3, counted 1, with the row holding 2 at the time: the row was set
\* to 1 and one loss of 2 recorded; the other line had no difference.
C18_Witness ==
    /\ last.op = "apply_adjustments"
    /\ last.ok
    /\ Len(checks[1].lines) = 2
    /\ checks[1].lines[1].expected_quantity = 3
    /\ checks[1].lines[1].actual_quantity = 1
    /\ checks[1].lines[2].difference = 0
    /\ stock[checks[1].lines[1].stock] = 1
    /\ stock[checks[1].lines[2].stock] = 3
    /\ checks[1].lines[2].actual_quantity = 2
    /\ Len(movements) = 1
    /\ movements[1].movement_type = "loss"
    /\ movements[1].quantity = 2

-----------------------------------------------------------------------------
(* Finalizing twice; returning more than was sold. *)

\* C19: finalize has no guard against a second call: on a sale whose
\* completed_at is set it succeeds whenever the stock covers the sale's
\* demand, records a second outbound movement per item and deducts every
\* item's quantity from stock again.
C19_SecondFinalizeDeductsAgain ==
    [][(last'.op = "finalize"
          /\ sales[last'.arg[1]].completed_at # NoTime
          /\ Sufficient(stock, sales[last'.arg[1]])) =>
          LET sid == last'.arg[1]
          IN  /\ last'.ok
              /\ movements' = movements \o ExpectedOutbound(sid, sales[sid])
              /\ \A k \in ItemKeys(sales[sid]) :
                    stock'[k] = stock[k] - Demand(sales[sid], k)]_vars

\* A sale of one unit was finalized twice: two outbound movements are stored
\* for its item and the row, which held 3, holds 1.
C19_Witness ==
    /\ last.op = "finalize"
    /\ last.ok
    /\ sales[1].items = <<ItemP(1)>>
    /\ movements = ExpectedOutbound(1, sales[1]) \o ExpectedOutbound(1, sales[1])
    /\ Len(audit) = 2
    /\ stock[Key("w1", "p1", None)] = 1

\* Units of sale item si named by the lines of a return.
LineUnits(ret, si) ==
    SeqSum([i \in 1..Len(ret.items) |->
              IF ret.items[i].sale_item = si THEN ret.items[i].quantity ELSE 0])

\* Units of sale item si given back by the returns processed so far.
AlreadyReturned(si) ==
    SeqSum([r \in 1..Len(returns) |->
              IF returns[r].status = "completed" THEN LineUnits(returns[r], si)
              ELSE 0])

\* With the return, more units of one of its sale items are given back than
\* the item sold, earlier returns counted.
OverReturns(ret) ==
    \E i \in 1..Len(ret.items) :
        AlreadyReturned(ret.items[i].sale_item) + LineUnits(ret, ret.items[i].sale_item) >
            sales[ret.items[i].sale_item[1]].items[ret.items[i].sale_item[2]].quantity

-----------------------------------------------------------------------------
(* The reconciliation's movements against the rows they are recorded for. *)

\* The row a recorded adjustment movement names.
AdjustedKey(m) ==
    Key(IF m.movement_type = "in" THEN m.warehouse_to ELSE m.warehouse_from,
        m.product, m.part)

\* The change of a row's quantity that applying the movement would make.
SignedQuantity(m) ==
    IF m.movement_type = "in" THEN m.quantity ELSE -m.quantity

\* C21: every movement that apply-adjustments records accounts for the change
\* of its stock row: the row's quantity after the call minus its quantity
\* before is +quantity for an inbound and -quantity for a loss, whatever the
\* row held when the adjustments were applied.
C21_AdjustmentMatchesChange ==
    [][(last'.op = "apply_adjustments" /\ last'.ok) =>
          \A j \in (Len(movements) + 1)..Len(movements') :
              stock'[AdjustedKey(movements'[j])] - stock[AdjustedKey(movements'[j])]
                  = SignedQuantity(movements'[j])]_vars

-----------------------------------------------------------------------------
(* SpecCreditEdit: the entry endpoint in full: entries appended, edited and
   deleted on an account that starts at zero. *)

EditAmountsUzs == {5000, 15000}
EditAmountsUsd == {0}

\* No balance is beyond what MaxEntries entries of the largest amount give.
BalancesInRange ==
    \A a \in Accounts : Abs(accounts[a].balance_uzs) <= MaxEntries * 15000

NextCreditEdit ==
    \/ \E a \in Accounts, d \in Directions, x \in EditAmountsUzs,
          y \in EditAmountsUsd :
          BalancesInRange /\ AppendCreditEntry(a, d, x, y)
    \/ \E pk \in 1..MaxEntries, d \in Directions, x \in EditAmountsUzs,
          y \in EditAmountsUsd : UpdateCreditEntry(pk, d, x, y)
    \/ \E pk \in 1..MaxEntries : DeleteCreditEntry(pk)

SpecCreditEdit == InitCredit /\ [][NextCreditEdit]_vars

\* The entry's amount in the field, positive for a debit, negative for a credit.
Signed(entry, field) ==
    IF entry.direction = "debit" THEN entry[field] ELSE -entry[field]

\* Debits minus credits over the entries stored for the account.
StoredBalance(account, field) ==
    SeqSum([i \in 1..Len(entries) |->
              IF entries[i].account = account THEN Signed(entries[i], field)
              ELSE 0])

\* C22: in every reachable state each account's balance is the sum of the
\* debits minus the sum of the credits of the entries stored for it, per
\* currency, entries edited or deleted through the endpoint included.
C22_BalanceFollowsStoredEntries ==
    \A a \in Accounts :
        /\ accounts[a].balance_uzs = StoredBalance(a, "amount_uzs")
        /\ accounts[a].balance_usd = StoredBalance(a, "amount_usd")

-----------------------------------------------------------------------------
(* The refunded status over the later life of the sale. *)

\* C23: once a processed return has forced a sale's status to refunded, the
\* sale stays refunded: no later step on the sale (payment, recomputation or
\* finalize) gives it the status open, partially_paid or paid.
C23_RefundedIsFinal ==
    [][\A sid \in 1..Len(sales) :
          sales[sid].status = "refunded" => sales'[sid].status = "refunded"]_vars

-----------------------------------------------------------------------------
(* SpecConcProcess: two requests, each calling process on the one stored
   return of a finalized sale. *)

InitConcProcess ==
    /\ \E Q \in 0..MaxQty :
          /\ stock = Row(ConcKey, Q)
          /\ movements = <<Receipt("w1", Q)>>
    /\ \E q \in 1..MaxQty, r \in 1..MaxQty, status \in {"draft", "approved"} :
          /\ r <= q
          /\ sales = <<[RecomputeTotals([NewSale("w1", "none", 0) EXCEPT
                                           !.items = <<ItemP(q)>>])
                          EXCEPT !.completed_at = 1]>>
          /\ returns = <<NewReturn(1, status,
                                   <<SaleReturnItem(<<1, 1>>, r, r * 100, r * 100)>>)>>
    /\ audit = <<>>
    /\ checks = <<>>
    /\ accounts = <<>>
    /\ entries = <<>>
    /\ clock = 2
    /\ last = Result("none", TRUE, "", <<>>)
    /\ pc = [p \in Procs |-> "idle"]
    /\ loc = [p \in Procs |-> IdleProcess]
    /\ tx = [p \in Procs |-> NoTx]

NextConcProcess ==
    \/ \E p \in Procs : BeginProcess(p, 1, "u1")
    \/ \E p \in Procs : ProcessCheck(p)
    \/ \E p \in Procs : ProcessRead(p)
    \/ \E p \in Procs : ProcessWrite(p)
    \/ \E p \in Procs : ProcessCommit(p)

SpecConcProcess == InitConcProcess /\ [][NextConcProcess]_vars

\* C24: two concurrent process calls on one return that is not completed
\* restock its lines at most once in total: in every state the row holds at
\* most what it held before the calls plus the units the return gives back.
C24_ReturnRestockedOnce ==
    stock[ConcKey] <= movements[1].quantity + UnitsReturned(returns[1])

-----------------------------------------------------------------------------
(* A refused adjustment and the rows of the ledger. *)

\* C25: an adjustment refused because the quantity would become negative
\* mutates nothing in the stock ledger: every row keeps its quantity and no
\* row is left behind for a pair that had none.
C25_RefusedAdjustMutatesNothing ==
    [][(last'.op = "movement" /\ last'.err = "insufficient_stock") =>
          stock' = stock]_vars

-----------------------------------------------------------------------------
(* SpecStockApi: the movement endpoint with any choice of product and part,
   and the stock endpoint's update. *)

\* Movements of warehouse w1 naming a product, a part, both or neither.
ItemInputs ==
    {Movement("in", None, "w1", product, part, q, <<"manual", 0>>) :
        product \in Products \cup {None}, part \in Parts \cup {None},
        q \in 1..MaxQty}
    \cup
    {Movement("out", "w1", None, product, part, q, <<"manual", 0>>) :
        product \in Products \cup {None}, part \in Parts \cup {None},
        q \in 1..MaxQty}

InitStockApi ==
    /\ stock \in AllStocks(MovKeys)
    /\ movements = <<>>
    /\ InitRest

NextStockApi ==
    \/ \E m \in ItemInputs : CreateMovement(m)
    \/ \E key \in MovKeys, q \in 0..MaxQty : UpdateStock(key, q)

SpecStockApi == InitStockApi /\ [][NextStockApi]_vars

\* C26: every stock row has exactly one of product and part set, never
\* both and never neither.
C26_RowHasProductOrPart ==
    \A k \in DOMAIN stock : (k[2] = None) # (k[3] = None)

\* The operations that apply movements, and the reconciliation.
MovementOps ==
    {"movement", "apply", "finalize", "create_sale", "process",
     "create_return", "apply_adjustments"}

\* C27: the quantity of a stock row changes only in a step that applies a
\* movement or in the reconciliation's overwrite, and no step removes a row.
C27_OnlyMovementsChangeStock ==
    [][/\ DOMAIN stock \subseteq DOMAIN stock'
       /\ (\E k \in DOMAIN stock : stock'[k] # stock[k])
             => last'.op \in MovementOps]_vars

-----------------------------------------------------------------------------
(* The audit trail of the finalizer. *)

\* The audit fact of a finalize of sale sid by the actor.
FinalizedFact(sid, actor) ==
    AuditFact("sale_finalized", actor, "Sale", sid, <<"sale_number", sid>>)

\* C28 as stated: every successful finalize appends exactly one audit fact
\* sale_finalized with the actor and the sale number, a failed one none.
C28_FinalizeAudits ==
    [][last'.op \in {"finalize", "create_sale"} =>
          audit' = IF last'.ok
                   THEN Append(audit, FinalizedFact(last'.arg[1], last'.arg[2]))
                   ELSE audit]_vars

\* C28, amended: a successful finalize that was passed an actor appends
\* exactly one audit fact sale_finalized with the actor and the sale number;
\* a successful finalize passed no actor, and a failed one, append none.
C28_FinalizeAuditsGivenActor ==
    [][last'.op \in {"finalize", "create_sale"} =>
          audit' = IF last'.ok /\ last'.arg[2] # None
                   THEN Append(audit, FinalizedFact(last'.arg[1], last'.arg[2]))
                   ELSE audit]_vars

\* A sale was finalized without an actor and then by u1: the trail holds the
\* one fact of the second call.
C28_Witness ==
    /\ last.op = "finalize"
    /\ last.ok
    /\ last.arg[2] = "u1"
    /\ Len(movements) = 2 * Len(sales[1].items)
    /\ audit = <<FinalizedFact(1, "u1")>>

-----------------------------------------------------------------------------
(* The rounding of the percent discount. *)

\* num/den, num >= 0 and den > 0, rounded to the nearest integer, a tie going
\* up.
HalfUp(num, den) == (2 * num + den) \div (2 * den)

\* C29: under the percent policy the stored totals are those of a discount
\* of subtotal x percent / 100 rounded half-up to the hundredth, in each
\* currency: a value halfway between two hundredths goes to the higher one.
C29_PercentDiscountHalfUp ==
    (last.op = "recompute" /\ sales[last.arg[1]].discount_type = "percent") =>
        LET sale == sales[last.arg[1]]
        IN  /\ sale.total_uzs = sale.subtotal_uzs
                  - HalfUp(sale.subtotal_uzs * sale.discount_value, 10000)
            /\ sale.total_usd = sale.subtotal_usd
                  - HalfUp(sale.subtotal_usd * sale.discount_value, 10000)

-----------------------------------------------------------------------------
(* SpecCheckLine: the lines of one draft check, created and edited with any
   counts and any difference set by the caller. *)

SuppliedDifferences == {-1, 0, 5}

InitCheckLine ==
    /\ stock \in [MovKeys -> {2}]
    /\ movements = <<>>
    /\ sales = <<>>
    /\ returns = <<>>
    /\ audit = <<>>
    /\ checks = <<InventoryCheck("w1", "draft", <<>>)>>
    /\ accounts = <<>>
    /\ entries = <<>>
    /\ clock = 1
    /\ last = Result("none", TRUE, "", <<>>)
    /\ pc = <<>>
    /\ loc = <<>>
    /\ tx = <<>>

NextCheckLine ==
    \/ \E key \in MovKeys, e \in CheckQuantities, a \in CheckQuantities,
          d \in SuppliedDifferences : AddCheckLine(1, key, e, a, d)
    \/ \E i \in 1..Cardinality(MovKeys), e \in CheckQuantities,
          a \in CheckQuantities, d \in SuppliedDifferences :
          EditCheckLine(1, i, e, a, d)

SpecCheckLine == InitCheckLine /\ [][NextCheckLine]_vars

\* C30: every stored check line's difference is actual_quantity -
\* expected_quantity, whatever difference its caller set before the save:
\* above 0 for a surplus, below 0 for a shortage, 0 when the counts agree.
C30_DifferenceIsDerived ==
    \A cid \in 1..Len(checks) : \A i \in 1..Len(checks[cid].lines) :
        LET line == checks[cid].lines[i]
        IN  /\ line.difference = line.actual_quantity - line.expected_quantity
            /\ line.actual_quantity > line.expected_quantity => line.difference > 0
            /\ line.actual_quantity < line.expected_quantity => line.difference < 0
            /\ line.actual_quantity = line.expected_quantity => line.difference = 0

\* A stored line was saved again with expected 3, counted 1 and a difference
\* of 5 set by the caller: the stored difference is -2.
C30_Witness ==
    /\ last.op = "save_line"
    /\ last.arg[3] = 5
    /\ Len(checks[1].lines) = 2
    /\ checks[1].lines[last.arg[2]].expected_quantity = 3
    /\ checks[1].lines[last.arg[2]].actual_quantity = 1
    /\ checks[1].lines[last.arg[2]].difference = -2

====
